---- MODULE Spec2Model ----
(***************************************************************************)
(* A model of github.com/jba/slog: the binary log format (binary/binary.go):*)
(* the Encoder, its WriteTo framing and the streaming Decode.              *)
(*                                                                         *)
(* Bytes are the integers 0..255 and a []byte or string is a sequence of   *)
(* bytes.  A 64-bit word (int64, uint64, the bits of a float64) is a tuple *)
(* of 64 bits, least significant first, so that shifts, complements and    *)
(* the two's-complement sign keep their width.  A uint32 is the pair       *)
(* <<high 16 bits, low 16 bits>>.  Lengths and indices (Go int) are plain  *)
(* integers: every buffer of the model is far shorter than 2^30 bytes.     *)
(***************************************************************************)
EXTENDS Integers, Sequences, FiniteSets, TLC

--------------------------------------------------------------------------
(* Words.                                                                  *)

Pow2(n) ==
    2 ^ n

\* The word whose bit k is f[k], as a tuple.
Word(f) ==
    SubSeq(f, 1, 64)

Zero64 ==
    Word([k \in 1..64 |-> 0])

\* uint64(n) / int64(n) of a non-negative Go int n < 2^30.
U64(n) ==
    Word([k \in 1..64 |-> IF k <= 30 THEN (n \div Pow2(k - 1)) % 2 ELSE 0])

\* x << s, x >> s, ^x and x | y on 64-bit words.
Shl64(x, s) ==
    IF s >= 64 THEN Zero64 ELSE SubSeq(Zero64, 1, s) \o SubSeq(x, 1, 64 - s)

Shr64(x, s) ==
    IF s >= 64 THEN Zero64 ELSE SubSeq(x, s + 1, 64) \o SubSeq(Zero64, 1, s)

Not64(x) ==
    Word([k \in 1..64 |-> 1 - x[k]])

Or64(x, y) ==
    Word([k \in 1..64 |-> IF x[k] = 1 \/ y[k] = 1 THEN 1 ELSE 0])

\* The sign of the word read as an int64.
IsNeg(x) ==
    x[64] = 1

RECURSIVE Field(_, _, _)
\* The n bits of x from bit position lo (1-based) upward, as a number.
Field(x, lo, n) ==
    IF n = 0 \/ lo > 64 THEN 0 ELSE x[lo] + 2 * Field(x, lo + 1, n - 1)

RECURSIVE ULessFrom(_, _, _)
\* x < y on the bits 1..k of two words: the highest differing bit decides.
ULessFrom(x, y, k) ==
    IF k = 0 THEN FALSE
    ELSE IF x[k] # y[k] THEN x[k] < y[k]
    ELSE ULessFrom(x, y, k - 1)

\* x < y on words read as uint64.
ULess(x, y) ==
    ULessFrom(x, y, 64)

\* 0 <= x <= n, for the word x read as an int64 and a Go int n; n < 0 never holds.
InRange(x, n) ==
    n >= 0 /\ ~IsNeg(x) /\ ~ULess(U64(n), x)

\* int(x) for a word known to be InRange of some model length.
IntOf(x) ==
    Field(x, 1, 30)

MinInt64 ==
    Word([k \in 1..64 |-> IF k = 64 THEN 1 ELSE 0])

MaxInt64 ==
    Word([k \in 1..64 |-> IF k = 64 THEN 0 ELSE 1])

MaxUint64 ==
    Word([k \in 1..64 |-> 1])

\* -n as an int64, two's complement, for a Go int n >= 1.
NegI64(n) ==
    Not64(U64(n - 1))

--------------------------------------------------------------------------
(* encoding/binary: varints and little-endian words, as binary.go uses them.*)

RECURSIVE AppendUvarint(_, _)
AppendUvarint(buf, x) ==
    IF ULess(U64(127), x)
    THEN AppendUvarint(Append(buf, Field(x, 1, 7) + 128), Shr64(x, 7))
    ELSE Append(buf, Field(x, 1, 8))

AppendVarint(buf, x) ==
    LET ux == Shl64(x, 1)
    IN  AppendUvarint(buf, IF IsNeg(x) THEN Not64(ux) ELSE ux)

RECURSIVE UvarintLoop(_, _, _, _)
\* The loop of binary.Uvarint: i is the index of the byte read next, x the
\* word gathered so far and s the shift.  n = 0: buf too small; n < 0: overflow
\* (more than 10 bytes, or a tenth byte above 1).
UvarintLoop(buf, i, x, s) ==
    IF i >= Len(buf) THEN [x |-> U64(0), n |-> 0]
    ELSE IF i = 10 THEN [x |-> U64(0), n |-> -(i + 1)]
    ELSE LET b == buf[i + 1]
         IN  IF b < 128
             THEN IF i = 9 /\ b > 1
                  THEN [x |-> U64(0), n |-> -(i + 1)]
                  ELSE [x |-> Or64(x, Shl64(U64(b), s)), n |-> i + 1]
             ELSE UvarintLoop(buf, i + 1, Or64(x, Shl64(U64(b % 128), s)), s + 7)

Uvarint(buf) ==
    UvarintLoop(buf, 0, U64(0), 0)

Varint(buf) ==
    LET u == Uvarint(buf)
        x == Shr64(u.x, 1)
    IN  [x |-> IF u.x[1] = 1 THEN Not64(x) ELSE x, n |-> u.n]

\* binary.LittleEndian.AppendUint64 and Uint64 (the latter on at least 8 bytes).
AppendUint64(buf, x) ==
    buf \o [k \in 1..8 |-> Field(x, 8 * (k - 1) + 1, 8)]

Uint64(buf) ==
    Word([k \in 1..64 |-> (buf[((k - 1) \div 8) + 1] \div Pow2((k - 1) % 8)) % 2])

\* uint32(n) of a Go int n >= 0, binary.LittleEndian.PutUint32 and Uint32.
ToUint32(n) ==
    <<(n \div 65536) % 65536, n % 65536>>

\* PutUint32 with the bytes in big-endian order: not what WriteTo calls.
PutUint32BigEndian(v) ==
    <<v[1] \div 256, v[1] % 256, v[2] \div 256, v[2] % 256>>

PutUint32(v) ==
    <<v[2] % 256, v[2] \div 256, v[1] % 256, v[1] \div 256>>

Uint32(b) ==
    <<b[3] + 256 * b[4], b[1] + 256 * b[2]>>

--------------------------------------------------------------------------
(* slog values.  One record shape serves every kind:                       *)
(*   String    s  the bytes                                                *)
(*   Int64, Uint64, Duration (nanoseconds)   w  the word                   *)
(*   Float64   w  math.Float64bits                                         *)
(*   Bool      b                                                           *)
(*   Time      s  what t.MarshalBinary returns, err its error              *)
(*   Any       b  whether the value implements encoding.TextMarshaler;     *)
(*             then s, err are what MarshalText returns, else s is         *)
(*             fmt.Sprint of the value                                     *)
(*   Group     sub  the attrs, each [key, value]                           *)
(*   LogValuer sub  one attr holding the value LogValue() returns          *)
(* An error is a string, "nil" for the nil error.                          *)

Val(kind, w, s, b, err, sub) ==
    [kind |-> kind, w |-> w, s |-> s, b |-> b, err |-> err, sub |-> sub]

StringValue(s) == Val("String", U64(0), s, FALSE, "nil", <<>>)
Int64Value(w) == Val("Int64", w, <<>>, FALSE, "nil", <<>>)
Uint64Value(w) == Val("Uint64", w, <<>>, FALSE, "nil", <<>>)
Float64Value(w) == Val("Float64", w, <<>>, FALSE, "nil", <<>>)
BoolValue(b) == Val("Bool", U64(0), <<>>, b, "nil", <<>>)
DurationValue(w) == Val("Duration", w, <<>>, FALSE, "nil", <<>>)
TimeValue(data, err) == Val("Time", U64(0), data, FALSE, err, <<>>)
AnyValue(tm, text, err) == Val("Any", U64(0), text, tm, err, <<>>)
GroupValue(attrs) == Val("Group", U64(0), <<>>, FALSE, "nil", attrs)
LogValuerValue(v) == Val("LogValuer", U64(0), <<>>, FALSE, "nil", <<[key |-> <<>>, value |-> v]>>)

Attr(key, value) ==
    [key |-> key, value |-> value]

RECURSIVE Resolve(_)
\* slog.Value.Resolve: LogValue is called until the value is no LogValuer.
Resolve(v) ==
    IF v.kind = "LogValuer" THEN Resolve(v.sub[1].value) ELSE v

--------------------------------------------------------------------------
(* The opcode space.                                                       *)

smallIntEnd == 200

opInt == smallIntEnd
opUint == smallIntEnd + 1
opFloat == smallIntEnd + 2
opTrue == smallIntEnd + 3
opFalse == smallIntEnd + 4
opString == smallIntEnd + 5
opBytes == smallIntEnd + 6
opDuration == smallIntEnd + 7
opTime == smallIntEnd + 8
opList == smallIntEnd + 9

\* 0xBAFEDC01: 0xBAFE = 47870, 0xDC01 = 56321.
magic ==
    <<47870, 56321>>

\* math.MaxUint32 as a 64-bit word.
MaxUint32 ==
    Word([k \in 1..64 |-> IF k <= 32 THEN 1 ELSE 0])

--------------------------------------------------------------------------
(* The Encoder: e is [buf, err].                                           *)

encodeOp(e, o) ==
    [e EXCEPT !.buf = Append(@, o)]

\* encodeInt with smallIntEnd itself taken for a small int: a variant that
\* the small-int rule must tell from the code's.
encodeIntInclusive(e, i) ==
    IF ~IsNeg(i) /\ ~ULess(U64(smallIntEnd), i)
    THEN [e EXCEPT !.buf = Append(@, Field(i, 1, 8))]
    ELSE LET e1 == encodeOp(e, opInt)
         IN  [e1 EXCEPT !.buf = AppendVarint(@, i)]

encodeInt(e, i) ==
    IF ~IsNeg(i) /\ ULess(i, U64(smallIntEnd))
    THEN [e EXCEPT !.buf = Append(@, Field(i, 1, 8))]
    ELSE LET e1 == encodeOp(e, opInt)
         IN  [e1 EXCEPT !.buf = AppendVarint(@, i)]

\* encodeUint taking the small-int shortcut that encodeInt takes.
encodeUintShortcut(e, u) ==
    IF ULess(u, U64(smallIntEnd))
    THEN [e EXCEPT !.buf = Append(@, Field(u, 1, 8))]
    ELSE LET e1 == encodeOp(e, opUint)
         IN  [e1 EXCEPT !.buf = AppendUvarint(@, u)]

encodeUint(e, u) ==
    LET e1 == encodeOp(e, opUint)
    IN  [e1 EXCEPT !.buf = AppendUvarint(@, u)]

encodeFloat(e, f) ==
    LET e1 == encodeOp(e, opFloat)
    IN  [e1 EXCEPT !.buf = AppendUint64(@, f)]

encodeBool(e, b) ==
    IF b THEN encodeOp(e, opTrue) ELSE encodeOp(e, opFalse)

encodeString(e, s) ==
    LET e1 == encodeOp(e, opString)
        e2 == encodeInt(e1, U64(Len(s)))
    IN  [e2 EXCEPT !.buf = @ \o s]

encodeBytes(e, b) ==
    LET e1 == encodeOp(e, opBytes)
        e2 == encodeInt(e1, U64(Len(b)))
    IN  [e2 EXCEPT !.buf = @ \o b]

\* encodeTime emptying the buffer when MarshalBinary fails.
encodeTimeResetting(e, t) ==
    LET e1 == encodeOp(e, opTime)
    IN  IF t.err # "nil"
        THEN [e1 EXCEPT !.err = t.err, !.buf = <<>>]
        ELSE [e1 EXCEPT !.buf = @ \o t.s]

\* t is a Time value: the opcode is appended before MarshalBinary is tried.
encodeTime(e, t) ==
    LET e1 == encodeOp(e, opTime)
    IN  IF t.err # "nil"
        THEN [e1 EXCEPT !.err = t.err]
        ELSE [e1 EXCEPT !.buf = @ \o t.s]

\* x is an Any value.
encodeAny(e, x) ==
    IF x.b
    THEN IF x.err # "nil"
         THEN [e EXCEPT !.err = x.err]
         ELSE encodeBytes(e, x.s)
    ELSE encodeString(e, x.s)

EncodeKey(e, key) ==
    encodeString(e, key)

RECURSIVE EncodeValue(_, _)
RECURSIVE EncodeAttrs(_, _, _, _)
\* The range loop of the KindGroup case over attrs[lo..hi]: the rounds for
\* the first half of them and then, on the encoder those leave, the rounds
\* for the rest.  (A round only appends; the test of that has e1 worked out
\* before the later rounds start, which keeps the evaluation shallow.)
EncodeAttrs(e, attrs, lo, hi) ==
    IF lo > hi THEN e
    ELSE IF lo = hi THEN EncodeValue(EncodeKey(e, attrs[lo].key), attrs[lo].value)
    ELSE LET mid == (lo + hi) \div 2
             e1 == EncodeAttrs(e, attrs, lo, mid)
         IN  IF Len(e1.buf) >= Len(e.buf) THEN EncodeAttrs(e1, attrs, mid + 1, hi) ELSE e1

\* EncodeValue writing a group's count as its number of attrs, not twice
\* that number.
EncodeValueCountingAttrs(e, v0) ==
    LET v == Resolve(v0)
    IN  CASE v.kind = "String" -> encodeString(e, v.s)
          [] v.kind = "Int64" -> encodeInt(e, v.w)
          [] v.kind = "Uint64" -> encodeUint(e, v.w)
          [] v.kind = "Float64" -> encodeFloat(e, v.w)
          [] v.kind = "Bool" -> encodeBool(e, v.b)
          [] v.kind = "Duration" -> encodeInt(encodeOp(e, opDuration), v.w)
          [] v.kind = "Time" -> encodeTime(e, v)
          [] v.kind = "Any" -> encodeAny(e, v)
          [] v.kind = "Group" ->
               EncodeAttrs(encodeInt(encodeOp(e, opList), U64(Len(v.sub))), v.sub, 1, Len(v.sub))

EncodeValue(e, v0) ==
    LET v == Resolve(v0)
    IN  CASE v.kind = "String" -> encodeString(e, v.s)
          [] v.kind = "Int64" -> encodeInt(e, v.w)
          [] v.kind = "Uint64" -> encodeUint(e, v.w)
          [] v.kind = "Float64" -> encodeFloat(e, v.w)
          [] v.kind = "Bool" -> encodeBool(e, v.b)
          [] v.kind = "Duration" -> encodeInt(encodeOp(e, opDuration), v.w)
          [] v.kind = "Time" -> encodeTime(e, v)
          [] v.kind = "Any" -> encodeAny(e, v)
          [] v.kind = "Group" ->
               EncodeAttrs(encodeInt(encodeOp(e, opList), U64(Len(v.sub) * 2)), v.sub, 1, Len(v.sub))

--------------------------------------------------------------------------
(* The io.Writer handed to WriteTo: w is [limited, room, data].  A limited *)
(* writer accepts room more bytes and then fails; data is what it took.    *)

Write(w, p) ==
    LET n == IF w.limited /\ Len(p) > w.room THEN w.room ELSE Len(p)
    IN  [w   |-> [w EXCEPT !.data = @ \o SubSeq(p, 1, n),
                           !.room = IF w.limited THEN @ - n ELSE @],
         n   |-> n,
         err |-> IF n < Len(p) THEN "short write" ELSE "nil"]

\* The 8-byte header WriteTo builds for a buffer of n bytes.
Header(n) ==
    PutUint32(magic) \o PutUint32(ToUint32(n))

\* WriteTo without its test of e.err: a variant that writes the frame of an
\* encoder that recorded a marshaling failure.
WriteToIgnoringErr(e, w) ==
    IF ULess(MaxUint32, U64(Len(e.buf)))
    THEN [n |-> 0, err |-> "buffer too big", w |-> w, writes |-> <<>>]
    ELSE LET h == Write(w, Header(Len(e.buf)))
         IN  IF h.err # "nil"
             THEN [n |-> h.n, err |-> h.err, w |-> h.w, writes |-> <<8>>]
             ELSE LET p == Write(h.w, e.buf)
                  IN  [n |-> p.n, err |-> p.err, w |-> p.w,
                       writes |-> <<8, Len(e.buf)>>]

\* Encoder.WriteTo: [n, err] are what it returns, w the writer afterwards and
\* writes the lengths of the slices handed to w.Write, in call order.
WriteTo(e, w) ==
    IF e.err # "nil"
    THEN [n |-> 0, err |-> e.err, w |-> w, writes |-> <<>>]
    ELSE IF ULess(MaxUint32, U64(Len(e.buf)))
    THEN [n |-> 0, err |-> "buffer too big", w |-> w, writes |-> <<>>]
    ELSE LET h == Write(w, Header(Len(e.buf)))
         IN  IF h.err # "nil"
             THEN [n |-> h.n, err |-> h.err, w |-> h.w, writes |-> <<8>>]
             ELSE LET p == Write(h.w, e.buf)
                  IN  [n |-> p.n, err |-> p.err, w |-> p.w,
                       writes |-> <<8, Len(e.buf)>>]

\* uint32(x) for a 64-bit word x: its low 32 bits.
Uint32Of(x) ==
    <<Field(x, 17, 16), Field(x, 1, 16)>>

\* WriteTo that builds the header without testing the length first.
WriteToLenUnchecked(len) ==
    [n |-> len, err |-> "nil",
     header |-> PutUint32(magic) \o PutUint32(Uint32Of(len)), payload |-> len]

\* Encoder.WriteTo seen from len(e.buf) alone, given as a 64-bit word: for an
\* encoder with no error and a writer that takes every byte, what it
\* returns, the header it writes and how many buffer bytes it writes.
WriteToLen(len) ==
    IF ULess(MaxUint32, len)
    THEN [n |-> Zero64, err |-> "buffer too big", header |-> <<>>, payload |-> Zero64]
    ELSE [n |-> len, err |-> "nil",
          header |-> PutUint32(magic) \o PutUint32(Uint32Of(len)), payload |-> len]

--------------------------------------------------------------------------
(* Decode.  What a Decode call returns (or how it ends) is a record        *)
(* [kind, msg, a, b]: kind is "nil", "error" or "panic"; an error made by  *)
(* fmt.Errorf keeps its format in msg and its two uint32 operands in a, b. *)

Ret(kind, msg, a, b) ==
    [kind |-> kind, msg |-> msg, a |-> a, b |-> b]

Running == Ret("none", "", <<0, 0>>, <<0, 0>>)
RetNil == Ret("nil", "", <<0, 0>>, <<0, 0>>)
RetError(msg) == Ret("error", msg, <<0, 0>>, <<0, 0>>)
RetPanic(msg) == Ret("panic", msg, <<0, 0>>, <<0, 0>>)

\* One call of a DecodeVisitor method m: the value is in w, s or b by kind.
Call(m, key, w, s, b) ==
    [m |-> m, key |-> key, w |-> w, s |-> s, b |-> b]

\* length > n for a uint32 length and a Go int n >= 0.
U32Greater(length, n) ==
    \/ length[1] > n \div 65536
    \/ length[1] = n \div 65536 /\ length[2] > n % 65536

\* io.ReadFull's error when the source r ends before the slice is full.
ShortRead(got) ==
    RetError(IF got = 0 THEN "EOF" ELSE "unexpected EOF")

\* readHeader without its test of the magic: a variant that goes on to read
\* the payload whatever the first four bytes are.
readHeaderAnyMagic(r) ==
    IF Len(r) < 8
    THEN [buf |-> <<>>, err |-> ShortRead(Len(r)), read |-> Len(r)]
    ELSE LET length == Uint32(SubSeq(r, 5, 8))
         IN  IF U32Greater(length, Len(r) - 8)
             THEN [buf |-> <<>>, err |-> ShortRead(Len(r) - 8), read |-> Len(r)]
             ELSE LET n == length[1] * 65536 + length[2]
                  IN  [buf |-> SubSeq(r, 9, 8 + n), err |-> RetNil, read |-> 8 + n]

\* readHeader taking a payload cut short for the whole payload: a variant
\* that hands Decode the bytes that did arrive.
readHeaderPartial(r) ==
    IF Len(r) < 8
    THEN [buf |-> <<>>, err |-> ShortRead(Len(r)), read |-> Len(r)]
    ELSE LET m == Uint32(SubSeq(r, 1, 4))
         IN  IF m # magic
             THEN [buf |-> <<>>, err |-> Ret("error", "got magic %x, want %x", m, magic),
                   read |-> 8]
             ELSE [buf |-> SubSeq(r, 9, Len(r)), err |-> RetNil, read |-> Len(r)]

\* readHeader that reads the source to its end, as io.ReadAll does, and
\* takes header and payload from what it read.
readHeaderToEOF(r) ==
    IF Len(r) < 8
    THEN [buf |-> <<>>, err |-> ShortRead(Len(r)), read |-> Len(r)]
    ELSE LET m == Uint32(SubSeq(r, 1, 4))
             length == Uint32(SubSeq(r, 5, 8))
         IN  IF m # magic
             THEN [buf |-> <<>>, err |-> Ret("error", "got magic %x, want %x", m, magic),
                   read |-> Len(r)]
             ELSE IF U32Greater(length, Len(r) - 8)
             THEN [buf |-> <<>>, err |-> ShortRead(Len(r) - 8), read |-> Len(r)]
             ELSE LET n == length[1] * 65536 + length[2]
                  IN  [buf |-> SubSeq(r, 9, 8 + n), err |-> RetNil, read |-> Len(r)]

\* readHeader on a source holding the bytes r: the payload, the error and the
\* number of bytes read from the source.
readHeader(r) ==
    IF Len(r) < 8
    THEN [buf |-> <<>>, err |-> ShortRead(Len(r)), read |-> Len(r)]
    ELSE LET m == Uint32(SubSeq(r, 1, 4))
             length == Uint32(SubSeq(r, 5, 8))
         IN  IF m # magic
             THEN [buf |-> <<>>, err |-> Ret("error", "got magic %x, want %x", m, magic),
                   read |-> 8]
             ELSE IF U32Greater(length, Len(r) - 8)
             THEN [buf |-> <<>>, err |-> ShortRead(Len(r) - 8), read |-> Len(r)]
             ELSE LET n == length[1] * 65536 + length[2]
                  IN  [buf |-> SubSeq(r, 9, 8 + n), err |-> RetNil, read |-> 8 + n]

\* buf[lo:] of a slice whose capacity is its length.
From(buf, lo) ==
    SubSeq(buf, lo + 1, Len(buf))

\* decodeString: ok is FALSE when a slice expression is out of range (a panic).
decodeString(buf) ==
    LET v == Varint(buf)
    IN  IF v.n >= 0 /\ InRange(v.x, Len(buf) - v.n)
        THEN [ok |-> TRUE, str |-> SubSeq(buf, v.n + 1, v.n + IntOf(v.x)),
              newbuf |-> From(buf, v.n + IntOf(v.x))]
        ELSE [ok |-> FALSE, str |-> <<>>, newbuf |-> <<>>]

\* The outcome of a loop body: the key and the body's own buf when it ended,
\* the visitor calls it made and how it ended (Running: it reached its end).
Outcome(key, buf, calls, ret) ==
    [key |-> key, buf |-> buf, calls |-> calls, ret |-> ret]

\* The value half of the loop body: b is the byte read, buf what follows it.
decodeValue(key, b, buf) ==
    IF b < smallIntEnd
    THEN Outcome(key, buf, <<Call("Int", key, U64(b), <<>>, FALSE)>>, Running)
    ELSE CASE b = opInt ->
                LET v == Varint(buf)
                    c == <<Call("Int", key, v.x, <<>>, FALSE)>>
                IN  IF v.n < 0
                    THEN Outcome(key, buf, c, RetPanic("slice bounds out of range"))
                    ELSE Outcome(key, From(buf, v.n), c, Running)
           [] b = opUint ->
                LET v == Uvarint(buf)
                    c == <<Call("Uint", key, v.x, <<>>, FALSE)>>
                IN  IF v.n < 0
                    THEN Outcome(key, buf, c, RetPanic("slice bounds out of range"))
                    ELSE Outcome(key, From(buf, v.n), c, Running)
           [] b = opFloat ->
                IF Len(buf) < 8
                THEN Outcome(key, buf, <<>>, RetPanic("index out of range"))
                ELSE Outcome(key, From(buf, 8),
                             <<Call("Float", key, Uint64(buf), <<>>, FALSE)>>, Running)
           [] b = opTrue ->
                Outcome(key, buf, <<Call("Bool", key, U64(0), <<>>, TRUE)>>, Running)
           [] b = opFalse ->
                Outcome(key, buf, <<Call("Bool", key, U64(0), <<>>, FALSE)>>, Running)
           [] b = opString ->
                LET v == Varint(buf)
                    buf1 == From(buf, v.n)
                IN  IF v.n < 0
                    THEN Outcome(key, buf, <<>>, RetPanic("slice bounds out of range"))
                    ELSE IF ~InRange(v.x, Len(buf1))
                    THEN Outcome(key, buf1, <<>>, RetPanic("slice bounds out of range"))
                    ELSE Outcome(key, From(buf1, IntOf(v.x)),
                                 <<Call("String", key, U64(0), SubSeq(buf1, 1, IntOf(v.x)), FALSE)>>,
                                 Running)
           [] OTHER ->
                Outcome(key, buf, <<>>, RetPanic("unknown op"))

\* The loop body stepping over a value of opcode opBytes, opDuration,
\* opTime or opList without a visitor call instead of failing on it.
LoopBodySkipping(buf) ==
    IF buf[1] # opString
    THEN Outcome(<<>>, buf, <<>>, RetError("key is not a string"))
    ELSE LET d == decodeString(Tail(buf))
         IN  IF ~d.ok
             THEN Outcome(<<>>, Tail(buf), <<>>, RetPanic("slice bounds out of range"))
             ELSE IF d.newbuf = <<>>
             THEN Outcome(d.str, d.newbuf, <<>>, RetPanic("index out of range"))
             ELSE IF d.newbuf[1] \in {opBytes, opDuration, opTime, opList}
             THEN Outcome(d.str, Tail(d.newbuf), <<>>, Running)
             ELSE decodeValue(d.str, d.newbuf[1], Tail(d.newbuf))

\* One pass through the body of Decode's loop, entered with len(buf) > 0.
LoopBody(buf) ==
    IF buf[1] # opString
    THEN Outcome(<<>>, buf, <<>>, RetError("key is not a string"))
    ELSE LET d == decodeString(Tail(buf))
         IN  IF ~d.ok
             THEN Outcome(<<>>, Tail(buf), <<>>, RetPanic("slice bounds out of range"))
             ELSE IF d.newbuf = <<>>
             THEN Outcome(d.str, d.newbuf, <<>>, RetPanic("index out of range"))
             ELSE decodeValue(d.str, d.newbuf[1], Tail(d.newbuf))

--------------------------------------------------------------------------
(* The inputs.                                                             *)

\* At most MaxAppends EncodeKey/EncodeValue calls are made on an encoder
\* between two GetEncoder calls, and MaxCalls visitor calls of one Decode
\* call are followed.
MaxAppends == 4
MaxCalls == 3

\* How many spans are started, and how many goroutines run.
MaxSpans == 3
MaxRacingSpans == 2
MaxGoroutines == 2

\* How many Handlers a family grows to, alone and under concurrent logging.
MaxHandlers == 4
MaxRacingHandlers == 2

\* The producers that share the pool, and the Encoder instances the pool's
\* New function is let build.
MaxProducers == 3
MaxEncoders == 3

Producers ==
    1..MaxProducers

Instances ==
    1..MaxEncoders

\* A string of n bytes c.
Str(n, c) ==
    [i \in 1..n |-> c]

\* The first attr of a record ranges over every kind and magnitude ...
Keys ==
    { <<>>, <<110>>, <<97, 98>>, <<98, 105, 103>>, Str(130, 107), Str(200, 75) }

IntValues ==
    { Int64Value(U64(0)), Int64Value(U64(5)), Int64Value(U64(199)), Int64Value(U64(200)),
      Int64Value(U64(1000)), Int64Value(NegI64(1)), Int64Value(NegI64(65)),
      Int64Value(MinInt64), Int64Value(MaxInt64) }

UintValues ==
    { Uint64Value(U64(0)), Uint64Value(U64(5)), Uint64Value(U64(300)), Uint64Value(MaxUint64) }

StringValues ==
    { StringValue(<<>>), StringValue(<<120>>), StringValue(<<104, 105>>),
      StringValue(Str(130, 115)), StringValue(Str(200, 83)),
      StringValue(Str(1030, 76)) }

\* The bits of 0.0, of 1.5 (0x3FF8 << 48) and of a NaN (0x7FF8 << 48 | 1).
FloatValues ==
    { Float64Value(U64(0)), Float64Value(Shl64(U64(16376), 48)),
      Float64Value(Or64(Shl64(U64(32760), 48), U64(1))) }

\* A time whose MarshalBinary gives 15 bytes and one whose zone offset it rejects.
TimeValues ==
    { TimeValue(<<1, 0, 0, 0, 14, 221, 15, 46, 128, 0, 0, 0, 0, 255, 255>>, "nil"),
      TimeValue(<<>>, "Time.MarshalBinary: unexpected zone offset") }

\* A TextMarshaler that succeeds, one that fails, and a plain struct.
AnyValues ==
    { AnyValue(TRUE, <<116, 120, 116>>, "nil"),
      AnyValue(TRUE, <<>>, "MarshalText failed"),
      AnyValue(FALSE, <<123, 49, 32, 50, 125>>, "nil") }

\* The empty group, a group holding a group, and one of 100 attrs (a count
\* of 200, the first beyond the small ints) whose first attr is a group.
GroupValues ==
    { GroupValue(<<>>),
      GroupValue([i \in 1..100 |->
                    IF i = 1
                    THEN Attr(<<103>>, GroupValue(<<Attr(<<98>>, BoolValue(TRUE))>>))
                    ELSE Attr(<<>>, Int64Value(U64(0)))]),
      GroupValue(<<Attr(<<97>>, Int64Value(U64(1))),
                   Attr(<<103>>, GroupValue(<<Attr(<<98>>, BoolValue(TRUE))>>))>>) }

Values ==
    IntValues \cup UintValues \cup StringValues \cup FloatValues \cup TimeValues
        \cup AnyValues \cup GroupValues
        \cup { BoolValue(TRUE), BoolValue(FALSE), DurationValue(U64(1500)),
               LogValuerValue(Int64Value(U64(5))) }

\* ... and the attrs after it over a few.
MoreKeys ==
    { <<>>, <<110>> }

MoreValues ==
    { Int64Value(U64(7)), StringValue(<<104, 105>>),
      AnyValue(TRUE, <<>>, "another MarshalText failure") }

\* The keys and values offered to the append that follows n appends.
KeysAt(n) ==
    IF n < 2 THEN Keys ELSE MoreKeys

ValuesAt(n) ==
    IF n < 2 THEN Values ELSE MoreValues

\* Buffer lengths around and beyond 2^32, as 64-bit words h * 2^32 + l * 2^s,
\* with math.MaxUint32 itself.
BigLens ==
    { Or64(Shl64(U64(h), 32), Shl64(U64(l), s)) :
          h \in 0..3, l \in {0, 1, 5, 255, 65535}, s \in {0, 8, 16, 24} }
        \cup { MaxUint32 }

\* The writers handed to WriteTo: one that takes everything, and ones that
\* fail inside the header, at its end and inside the payload.
Writers ==
    { [limited |-> FALSE, room |-> 0, data |-> <<>>] }
        \cup { [limited |-> TRUE, room |-> n, data |-> <<>>] : n \in {3, 8, 10} }

\* A frame around a payload, as a source for Decode.
Frame(payload) ==
    Header(Len(payload)) \o payload

\* Sources that no WriteTo of the model produced: the two payloads spelled
\* out in the format's description, payloads whose lengths are written the
\* way Decode reads them, malformed ones, and frames one after the other.
Streams ==
    { Frame(<<opString, 1, 110, 5>>),
      Frame(<<opString, 3, 98, 105, 103, opInt, 208, 15>>),
      Frame(<<opString, 2, 110, 5>>),
      Frame(<<opString, 2, 110, 5, opString, 2, 109, opTrue>>),
      Frame(<<>>),
      <<>>,
      <<1, 220, 254>>,
      <<2, 220, 254, 186, 3, 0, 0, 0, opString, 0, 5>>,
      <<1, 220, 254, 187, 0, 0, 0, 0>>,
      <<1, 220, 254, 186, 4, 0, 0, 0, opString, 0, 5>>,
      <<1, 220, 254, 186, 0, 0, 1, 0>>,
      Frame(<<5, 0, 5>>),
      Frame(<<opString, 0, 5, opTrue>>),
      Frame(<<opString, 0>>),
      Frame(<<opString>>),
      Frame(<<opString, 0, opInt, 128>>),
      Frame(<<opString, 0, opInt, 255, 255, 255, 255, 255, 255, 255, 255, 255, 2>>),
      Frame(<<opString, 0, opUint, 128, 128, 128, 128, 128, 128, 128, 128, 128, 128, 1>>),
      Frame(<<opString, 0, opFloat, 1, 2, 3>>),
      Frame(<<opString, 0, opString, 10, 1>>),
      Frame(<<opString, 0, opString, 3, 1>>),
      Frame(<<opString, 9, 1>>),
      Frame(<<opString, 0, opBytes, 0>>),
      Frame(<<opString, 0, opDuration, 5>>),
      Frame(<<opString, 0, opTime>>),
      Frame(<<opString, 0, opList, 0>>),
      Frame(<<opString, 0, 210>>),
      Frame(<<opString, 0, 255>>),
      Frame(<<>>) \o Frame(<<opString, 1, 111, 6>>),
      Frame(<<5, 0, 5>>) \o Frame(<<>>) \o Frame(<<6>>),
      Frame(<<opString, 1, 110, 5>>) \o Frame(<<>>),
      Frame(<<>>) \o <<7>> }

--------------------------------------------------------------------------
(* The state.                                                              *)

VARIABLES
    pool,     \* the sync.Pool: how many times each instance lies in it
    made,     \* how many instances the pool's New has built
    has,      \* the instance each producer holds, 0 for none
    buf,      \* Encoder.buf of the instance producer 1 holds or held last
    err,      \* Encoder.err of that instance
    hist,     \* the arguments of the appends made since GetEncoder: keys are String values
    wstate,   \* "returned" when WriteTo was the producer's last call, "again"
              \* when its last two calls were WriteTo on one writer, else "none"
    w,        \* the writer that call was given, as the call left it
    wn,       \* the count it returned
    werr,     \* the error it returned
    writes,   \* the lengths of the slices it handed to w.Write
    dpc,      \* Decode: "idle", "loop" (at the loop's test) or "done"
    r,        \* the bytes of the source handed to Decode
    rpos,     \* how many of them Decode has read
    dbuf,     \* buf of Decode's outer scope, which the loop tests
    key,      \* key of the loop body
    ibuf,     \* buf of the loop body, which shadows the outer one
    calls,    \* the visitor calls made so far
    dret,     \* what Decode returned
    biglen,   \* len(e.buf) of an encoder that is appended to without end
    bigout,   \* what WriteTo made of it: [state, n, err, header, payload]
    goa,      \* withsupport: the *GroupOrAttrs of the handler followed, newest node first
    withs,    \* the WithAttrs and WithGroup calls that built it, oldest first
    applied,  \* the last Apply on it: [state, calls, groups]
    handled,  \* the last simple Handle on it: [state, attrs, rattrs, omit]
    conv,     \* verbosity: the last conversion: [op, in, out, chained, first]
    ctxs,     \* trace: the contexts there are, each [list, span]
    spans,    \* the spans made, each [name, list]
    lists,    \* spanList.spans of each spanList made
    mu,       \* spanList.mu of each: the goroutine that holds it, 0 for none
    tpc,      \* the statement each goroutine is at, "idle" outside a call
    tloc,     \* its call: [op, c, s, sl, ret]
    ended,    \* the spans End was called on
    lifo,     \* every End so far was called on the innermost span not yet ended
    hs,       \* general: the Handlers of the family: [newFormatter, preformatted, groups, mu, w]
    barrs,    \* the backing arrays of their []byte slices
    sarrs,    \* the backing arrays of their []string slices
    gpc,      \* the statement of Handle each goroutine is at, "idle" outside it
    gloc,     \* its call: [h, buf]
    out       \* what the last Write call handed to the family's writer

poolVars == <<pool, made, has>>
encVars == <<pool, made, has, buf, err, hist>>
wrVars == <<wstate, w, wn, werr, writes>>
decVars == <<dpc, r, rpos, dbuf, key, ibuf, calls, dret>>
bigVars == <<biglen, bigout>>
binVars == <<encVars, wrVars, decVars, bigVars>>
withVars == <<goa, withs, applied, handled>>
verbVars == <<conv>>
traceVars == <<ctxs, spans, lists, mu, tpc, tloc, ended, lifo>>
genVars == <<hs, barrs, sarrs, gpc, gloc, out>>
pkgVars == <<withVars, verbVars, traceVars, genVars>>
vars == <<pool, made, has, buf, err, hist, wstate, w, wn, werr, writes,
          dpc, r, rpos, dbuf, key, ibuf, calls, dret, biglen, bigout, pkgVars>>

\* Producer 1, whose encoder the appends, WriteTo and Decode are followed
\* on, holds an encoder (it is between GetEncoder and PutEncoder).
held ==
    has[1] # 0

NoOut ==
    [state |-> "none", n |-> Zero64, err |-> "nil", header |-> <<>>, payload |-> Zero64]

NotConverted ==
    [op |-> "none", in |-> Zero64, out |-> Zero64, chained |-> FALSE, first |-> Zero64]

NotApplied ==
    [state |-> "none", calls |-> <<>>, groups |-> <<>>]

NotHandled ==
    [state |-> "none", attrs |-> <<>>, rattrs |-> <<>>, omit |-> FALSE]

NoWriter == [limited |-> FALSE, room |-> 0, data |-> <<>>]

\* No WriteTo result, no Decode call in the state.
NoWrite ==
    /\ wstate' = "none"
    /\ w' = NoWriter
    /\ wn' = 0
    /\ werr' = "nil"
    /\ writes' = <<>>

NoDecode ==
    /\ dpc' = "idle"
    /\ r' = <<>>
    /\ rpos' = 0
    /\ dbuf' = <<>>
    /\ key' = <<>>
    /\ ibuf' = <<>>
    /\ calls' = <<>>
    /\ dret' = Running

Init ==
    /\ pool = [x \in Instances |-> 0]
    /\ made = 0
    /\ has = [p \in Producers |-> 0]
    /\ buf = <<>>
    /\ err = "nil"
    /\ hist = <<>>
    /\ wstate = "none"
    /\ w = NoWriter
    /\ wn = 0
    /\ werr = "nil"
    /\ writes = <<>>
    /\ dpc = "idle"
    /\ r = <<>>
    /\ rpos = 0
    /\ dbuf = <<>>
    /\ key = <<>>
    /\ ibuf = <<>>
    /\ calls = <<>>
    /\ dret = Running
    /\ biglen = Zero64
    /\ bigout = NoOut
    /\ goa = <<>>
    /\ withs = <<>>
    /\ applied = NotApplied
    /\ handled = NotHandled
    /\ conv = NotConverted
    /\ ctxs = <<[list |-> 0, span |-> 0]>>
    /\ spans = <<>>
    /\ lists = <<>>
    /\ mu = <<>>
    /\ tpc = [p \in 1..MaxGoroutines |-> "idle"]
    /\ tloc = [p \in 1..MaxGoroutines |->
                  [op |-> "none", c |-> 0, s |-> 0, sl |-> 0,
                   ret |-> [kind |-> "none", name |-> ""]]]
    /\ ended = {}
    /\ lifo = TRUE
    /\ hs = <<>>
    /\ barrs = <<>>
    /\ sarrs = <<>>
    /\ gpc = [p \in 1..MaxGoroutines |-> "idle"]
    /\ gloc = [p \in 1..MaxGoroutines |-> [h |-> 0, buf |-> <<>>]]
    /\ out = <<>>

--------------------------------------------------------------------------
(* The producer.  It works on one encoder at a time; the result of a call  *)
(* is dropped from the state when the producer makes its next call.        *)

\* The pool after a pool.Get that hands out x and leaves it in the pool.
TakenLeftIn(pl, x) ==
    pl

\* The pool after pool.Get has taken instance x out of it.
Taken(pl, x) ==
    [pl EXCEPT ![x] = @ - 1]

\* GetEncoder without the two resets: a variant that hands out the instance
\* with the buffer and the error it was put back with.
GetEncoderAsPut(p) ==
    /\ has[p] = 0
    /\ \/ \E x \in Instances :
            /\ pool[x] > 0
            /\ pool' = Taken(pool, x)
            /\ has' = [has EXCEPT ![p] = x]
            /\ made' = made
       \/ /\ \A x \in Instances : pool[x] = 0
          /\ made < MaxEncoders
          /\ made' = made + 1
          /\ has' = [has EXCEPT ![p] = made + 1]
          /\ pool' = pool
    /\ hist' = IF p = 1 THEN <<>> ELSE hist
    /\ UNCHANGED <<buf, err>>
    /\ NoWrite
    /\ NoDecode
    /\ UNCHANGED <<bigVars, pkgVars>>

\* e := GetEncoder() by producer p: pool.Get hands out an instance that lies
\* in the pool, any of them, and takes it out; with the pool empty it has
\* New build one.  Then err and buf are reset, whatever the instance held.
GetEncoder(p) ==
    /\ has[p] = 0
    /\ \/ \E x \in Instances :
            /\ pool[x] > 0
            /\ pool' = Taken(pool, x)
            /\ has' = [has EXCEPT ![p] = x]
            /\ made' = made
       \/ /\ \A x \in Instances : pool[x] = 0
          /\ made < MaxEncoders
          /\ made' = made + 1
          /\ has' = [has EXCEPT ![p] = made + 1]
          /\ pool' = pool
    /\ IF p = 1
       THEN err' = "nil" /\ buf' = <<>> /\ hist' = <<>>
       ELSE UNCHANGED <<buf, err, hist>>
    /\ NoWrite
    /\ NoDecode
    /\ UNCHANGED <<bigVars, pkgVars>>

\* PutEncoder(e) by producer p, on the instance it holds: the instance goes
\* to the pool as it is.
PutEncoder(p) ==
    /\ has[p] # 0
    /\ pool' = [pool EXCEPT ![has[p]] = @ + 1]
    /\ has' = [has EXCEPT ![p] = 0]
    /\ UNCHANGED <<made, buf, err, hist>>
    /\ NoWrite
    /\ NoDecode
    /\ UNCHANGED <<bigVars, pkgVars>>

\* The garbage collector empties the sync.Pool of an instance.
PoolDrop(x) ==
    /\ pool[x] > 0
    /\ pool' = [pool EXCEPT ![x] = 0]
    /\ UNCHANGED <<made, has, buf, err, hist, wrVars, decVars, bigVars, pkgVars>>

\* e.EncodeKey(k) and e.EncodeValue(v), called in turn as EncodeValue's own
\* loop over a group calls them.
AppendKey(k) ==
    /\ held
    /\ dpc = "idle"
    /\ Len(hist) < MaxAppends
    /\ Len(hist) % 2 = 0
    /\ LET e == EncodeKey([buf |-> buf, err |-> err], k)
       IN  /\ buf' = e.buf
           /\ err' = e.err
    /\ hist' = Append(hist, StringValue(k))
    /\ UNCHANGED poolVars
    /\ NoWrite
    /\ NoDecode
    /\ UNCHANGED <<bigVars, pkgVars>>

AppendValue(v) ==
    /\ held
    /\ dpc = "idle"
    /\ Len(hist) < MaxAppends
    /\ Len(hist) % 2 = 1
    /\ LET e == EncodeValue([buf |-> buf, err |-> err], v)
       IN  /\ buf' = e.buf
           /\ err' = e.err
    /\ hist' = Append(hist, v)
    /\ UNCHANGED poolVars
    /\ NoWrite
    /\ NoDecode
    /\ UNCHANGED <<bigVars, pkgVars>>

\* A WriteTo that hands the buffer's array back once it is written, as a
\* flush does.
FinishResetting(x) ==
    /\ held
    /\ dpc = "idle"
    /\ wstate = "none"
    /\ LET res == WriteTo([buf |-> buf, err |-> err], x)
       IN  /\ w' = res.w
           /\ wn' = res.n
           /\ werr' = res.err
           /\ writes' = res.writes
    /\ wstate' = "returned"
    /\ buf' = <<>>
    /\ UNCHANGED <<pool, made, has, err, hist>>
    /\ NoDecode
    /\ UNCHANGED <<bigVars, pkgVars>>

\* n, err := e.WriteTo(x) on a writer x.  (A WriteTo right after a WriteTo
\* starts from the same encoder, so it is the first one with another x.)
Finish(x) ==
    /\ held
    /\ dpc = "idle"
    /\ wstate = "none"
    /\ LET res == WriteTo([buf |-> buf, err |-> err], x)
       IN  /\ w' = res.w
           /\ wn' = res.n
           /\ werr' = res.err
           /\ writes' = res.writes
    /\ wstate' = "returned"
    /\ UNCHANGED encVars
    /\ NoDecode
    /\ UNCHANGED <<bigVars, pkgVars>>

\* n, err := e.WriteTo(w) once more, on the writer of the WriteTo before,
\* which holds what it took then.
WriteToAgain ==
    /\ held
    /\ dpc = "idle"
    /\ wstate = "returned"
    /\ LET res == WriteTo([buf |-> buf, err |-> err], w)
       IN  /\ w' = res.w
           /\ wn' = res.n
           /\ werr' = res.err
           /\ writes' = res.writes
    /\ wstate' = "again"
    /\ UNCHANGED encVars
    /\ NoDecode
    /\ UNCHANGED <<bigVars, pkgVars>>

--------------------------------------------------------------------------
(* The consumer.                                                           *)

\* Decode up to the loop, on a source holding the bytes s.
DecodeEnter(s) ==
    LET h == readHeader(s)
    IN  /\ r' = s
        /\ rpos' = h.read
        /\ dbuf' = h.buf
        /\ key' = <<>>
        /\ ibuf' = <<>>
        /\ calls' = <<>>
        /\ IF h.err # RetNil
           THEN dpc' = "done" /\ dret' = h.err
           ELSE dpc' = "loop" /\ dret' = Running

\* Decode is called on what the last WriteTo left in its writer ...
DecodeWritten ==
    /\ wstate = "returned"
    /\ dpc = "idle"
    /\ DecodeEnter(w.data)
    /\ UNCHANGED <<encVars, wrVars, bigVars, pkgVars>>

\* ... or on a stream from elsewhere.
DecodeStream(s) ==
    /\ ~held
    /\ hist = <<>>
    /\ dpc # "loop" \/ Len(calls) = MaxCalls
    /\ DecodeEnter(s)
    /\ UNCHANGED <<encVars, wrVars, bigVars, pkgVars>>

\* ... or, after a Decode that returned, once more on the same source: it
\* holds what the call before left unread.
DecodeRest ==
    /\ ~held
    /\ hist = <<>>
    /\ dpc = "done"
    /\ dret.kind \in {"nil", "error"}
    /\ rpos < Len(r)
    /\ DecodeEnter(From(r, rpos))
    /\ UNCHANGED <<encVars, wrVars, bigVars, pkgVars>>

\* The loop's test and, when it passes, one run of its body.  The body
\* declares its own key and buf (key, buf := decodeString(buf[1:])), so what
\* it consumes is taken from ibuf and the outer buf, dbuf, stays as it is.
DecodeStep ==
    /\ dpc = "loop"
    /\ Len(calls) < MaxCalls
    /\ IF Len(dbuf) > 0
       THEN LET o == LoopBody(dbuf)
            IN  /\ key' = o.key
                /\ ibuf' = o.buf
                /\ calls' = calls \o o.calls
                /\ dret' = o.ret
                /\ dpc' = IF o.ret = Running THEN "loop" ELSE "done"
                /\ dbuf' = dbuf
       ELSE /\ dret' = RetNil
            /\ dpc' = "done"
            /\ UNCHANGED <<dbuf, key, ibuf, calls>>
    /\ UNCHANGED <<r, rpos, encVars, wrVars, bigVars, pkgVars>>

Next ==
    \/ GetEncoder(1)
    \/ PutEncoder(1)
    \/ \E k \in KeysAt(Len(hist)) : AppendKey(k)
    \/ \E v \in ValuesAt(Len(hist)) : AppendValue(v)
    \/ \E x \in Writers : Finish(x)
    \/ WriteToAgain
    \/ DecodeWritten
    \/ \E s \in Streams : DecodeStream(s)
    \/ DecodeRest
    \/ DecodeStep

Spec ==
    Init /\ [][Next]_vars

\* Several producers at the pool.  An append, a WriteTo and a Decode touch
\* only the encoder their producer holds and are left to Spec.
PoolNext ==
    \/ \E p \in Producers : GetEncoder(p)
    \/ \E p \in Producers : PutEncoder(p)
    \/ \E x \in Instances : PoolDrop(x)

PoolSpec ==
    Init /\ [][PoolNext]_vars

\* An encoder whose buffer outgrows the 32-bit length field.  Its bytes are
\* not kept, only how many they are.
\* EncodeKey and EncodeValue calls that bring the buffer to l bytes.
AppendUpTo(l) ==
    /\ bigout.state = "none"
    /\ ULess(biglen, l)
    /\ biglen' = l
    /\ UNCHANGED <<bigout, encVars, wrVars, decVars, pkgVars>>

\* n, err := e.WriteTo(w) on that encoder and a writer that takes every byte.
FinishBig ==
    /\ bigout.state = "none"
    /\ bigout' = [state |-> "returned"] @@ WriteToLen(biglen)
    /\ UNCHANGED <<biglen, encVars, wrVars, decVars, pkgVars>>

BigNext ==
    \/ \E l \in BigLens : AppendUpTo(l)
    \/ FinishBig

BigSpec ==
    Init /\ [][BigNext]_vars

--------------------------------------------------------------------------
(* withsupport (withsupport/withsupport.go) and the handlers built on it:  *)
(* the package's test handler and handlers/simple.  A *GroupOrAttrs is the *)
(* sequence of its nodes from the receiver along Next; nil is <<>>.        *)

\* How many WithAttrs and WithGroup calls a chain is followed for.
MaxWith == 4

GroupOrAttrs(group, attrs) ==
    [Group |-> group, Attrs |-> attrs]

WithGroup(g, name) ==
    IF name = <<>> THEN g ELSE <<GroupOrAttrs(name, <<>>)>> \o g

WithAttrs(g, attrs) ==
    IF Len(attrs) = 0 THEN g ELSE <<GroupOrAttrs(<<>>, attrs)>> \o g

RECURSIVE recNewestFirst(_, _)
\* rec with the node's own work done before the call on g.Next.
recNewestFirst(st, g) ==
    IF g = <<>> THEN st
    ELSE LET n == Head(g)
             s1 == IF n.Group # <<>>
                   THEN [st EXCEPT !.groups = Append(@, n.Group)]
                   ELSE [st EXCEPT !.calls = @ \o [i \in 1..Len(n.Attrs) |->
                                              [groups |-> st.groups, a |-> n.Attrs[i]]]]
         IN  recNewestFirst(s1, Tail(g))

RECURSIVE rec(_, _)
\* The closure rec of Apply.  st holds the groups variable it closes over and
\* the calls of f made so far, each with the slice and the Attr it was given.
rec(st, g) ==
    IF g = <<>> THEN st
    ELSE LET s1 == rec(st, Tail(g))
             n == Head(g)
         IN  IF n.Group # <<>>
             THEN [s1 EXCEPT !.groups = Append(@, n.Group)]
             ELSE [s1 EXCEPT !.calls = @ \o [i \in 1..Len(n.Attrs) |->
                                        [groups |-> s1.groups, a |-> n.Attrs[i]]]]

ApplyNewestFirst(g) ==
    recNewestFirst([calls |-> <<>>, groups |-> <<>>], g)

\* g.Apply(f): the calls of f and the groups returned.
Apply(g) ==
    rec([calls |-> <<>>, groups |-> <<>>], g)

\* slog.Value.isEmptyGroup.
isEmptyGroup(v) ==
    v.kind = "Group" /\ Len(v.sub) = 0

\* The attrs that are no empty group, in order.
WithoutEmptyGroups(as) ==
    SelectSeq(as, LAMBDA a : ~isEmptyGroup(a.value))

\* slog.Group(key, attrs...).  A slog that omits empty groups (log/slog, and
\* x/exp/slog since it did) drops them from the list as the value is built.
Group(k, as, omit) ==
    Attr(k, GroupValue(IF omit THEN WithoutEmptyGroups(as) ELSE as))

\* r2.AddAttrs(attrs...) on a record without attrs: the record's attrs after.
AddAttrs(as, omit) ==
    IF omit THEN WithoutEmptyGroups(as) ELSE as

RECURSIVE HandleLoopAppending(_, _, _)
\* The loop with a node's attrs put after the collected ones.
HandleLoopAppending(g, attrs, omit) ==
    IF g = <<>> THEN attrs
    ELSE HandleLoopAppending(Tail(g),
                             IF Head(g).Group # <<>>
                             THEN <<Group(Head(g).Group, attrs, omit)>>
                             ELSE attrs \o Head(g).Attrs,
                             omit)

RECURSIVE HandleLoop(_, _, _)
\* for g := h.goa; g != nil; g = g.Next of simpleHandler.Handle.
HandleLoop(g, attrs, omit) ==
    IF g = <<>> THEN attrs
    ELSE HandleLoop(Tail(g),
                    IF Head(g).Group # <<>>
                    THEN <<Group(Head(g).Group, attrs, omit)>>
                    ELSE Head(g).Attrs \o attrs,
                    omit)

HandleAppending(g, rattrs, omit) ==
    AddAttrs(HandleLoopAppending(g, rattrs, omit), omit)

\* simpleHandler.Handle on a record with the attrs rattrs: the attrs of the
\* record r2 it passes to h.handle.
Handle(g, rattrs, omit) ==
    AddAttrs(HandleLoop(g, rattrs, omit), omit)

\* The inputs: the names G, H and none; the attrs a=1, b=2, c=3, d=TRUE.
GroupNames ==
    { <<>>, <<71>>, <<72>> }

AttrLists ==
    { <<>>,
      <<Attr(<<97>>, Int64Value(U64(1)))>>,
      <<Attr(<<98>>, Int64Value(U64(2))), Attr(<<100>>, BoolValue(TRUE))>> }

RecordAttrs ==
    { <<>>,
      <<Attr(<<99>>, Int64Value(U64(3)))>>,
      <<Attr(<<99>>, Int64Value(U64(3))), Attr(<<100>>, BoolValue(TRUE))>> }

\* h.WithGroup(name) and h.WithAttrs(as) of a handler that keeps a
\* *GroupOrAttrs; the handler returned is the one followed from here on.
handlerWithGroup(name) ==
    /\ Len(withs) < MaxWith
    /\ goa' = WithGroup(goa, name)
    /\ withs' = Append(withs, [m |-> "WithGroup", name |-> name, attrs |-> <<>>])
    /\ applied' = NotApplied
    /\ handled' = NotHandled
    /\ UNCHANGED <<binVars, verbVars, traceVars, genVars>>

handlerWithAttrs(as) ==
    /\ Len(withs) < MaxWith
    /\ goa' = WithAttrs(goa, as)
    /\ withs' = Append(withs, [m |-> "WithAttrs", name |-> <<>>, attrs |-> as])
    /\ applied' = NotApplied
    /\ handled' = NotHandled
    /\ UNCHANGED <<binVars, verbVars, traceVars, genVars>>

\* groups := h.with.Apply(f) with an f that records its arguments.
handlerApply ==
    /\ applied.state = "none"
    /\ applied' = [state |-> "returned"] @@ Apply(goa)
    /\ handled' = NotHandled
    /\ UNCHANGED <<goa, withs, binVars, verbVars, traceVars, genVars>>

\* h.Handle(ctx, r) of the simple handler, built against either slog.
simpleHandle(rattrs, omit) ==
    /\ handled.state = "none"
    /\ handled' = [state |-> "returned", attrs |-> Handle(goa, rattrs, omit),
                   rattrs |-> rattrs, omit |-> omit]
    /\ applied' = NotApplied
    /\ UNCHANGED <<goa, withs, binVars, verbVars, traceVars, genVars>>

WithNext ==
    \/ \E name \in GroupNames : handlerWithGroup(name)
    \/ \E as \in AttrLists : handlerWithAttrs(as)
    \/ handlerApply
    \/ \E rattrs \in RecordAttrs, omit \in BOOLEAN : simpleHandle(rattrs, omit)

WithSpec ==
    Init /\ [][WithNext]_vars

--------------------------------------------------------------------------
(* verbosity (package verbosity).  A verbosity is a Go int and a slog.Level *)
(* is an int too: both are 64-bit words here, and - wraps as Go's does.    *)

\* The verbosities and levels tried are -MaxVerbosity..MaxVerbosity and the
\* ends of the int range.
MaxVerbosity == 40

RECURSIVE SubFrom(_, _, _, _)
\* The bits k..64 of x - y, given the borrow out of the bits below k.
SubFrom(x, y, k, borrow) ==
    IF k > 64 THEN <<>>
    ELSE LET d == x[k] - y[k] - borrow
         IN  <<d % 2>> \o SubFrom(x, y, k + 1, IF d < 0 THEN 1 ELSE 0)

\* x - y on int64, wrapping.
Sub64(x, y) ==
    SubFrom(x, y, 1, 0)

RECURSIVE AddFrom(_, _, _, _)
AddFrom(x, y, k, carry) ==
    IF k > 64 THEN <<>>
    ELSE LET d == x[k] + y[k] + carry
         IN  <<d % 2>> \o AddFrom(x, y, k + 1, d \div 2)

\* x + y on int64, wrapping.
Add64(x, y) ==
    AddFrom(x, y, 1, 0)

\* int64(n) for a Go int n of the model, of either sign.
I64(n) ==
    IF n >= 0 THEN U64(n) ELSE NegI64(0 - n)

\* slog.LevelInfo.
LevelInfo ==
    I64(0)

ToLevelAdding(verbosity) ==
    Add64(LevelInfo, verbosity)

ToLevel(verbosity) ==
    Sub64(LevelInfo, verbosity)

FromLevelIdentity(l) ==
    l

FromLevel(l) ==
    Sub64(LevelInfo, l)

Verbosities ==
    { I64(n) : n \in (0 - MaxVerbosity)..MaxVerbosity }
        \cup { MinInt64, MaxInt64, Sub64(MaxInt64, I64(1)), Add64(MinInt64, I64(1)) }

\* l := ToLevel(v), and v := FromLevel(l).
CallToLevel(v) ==
    /\ conv.op = "none"
    /\ conv' = [op |-> "ToLevel", in |-> v, out |-> ToLevel(v), chained |-> FALSE, first |-> v]
    /\ UNCHANGED <<binVars, withVars, traceVars, genVars>>

CallFromLevel(l) ==
    /\ conv.op = "none"
    /\ conv' = [op |-> "FromLevel", in |-> l, out |-> FromLevel(l), chained |-> FALSE, first |-> l]
    /\ UNCHANGED <<binVars, withVars, traceVars, genVars>>

\* The other conversion applied to the result of the last one.
ConvertBack ==
    /\ conv.op # "none"
    /\ ~conv.chained
    /\ conv' = [op |-> IF conv.op = "ToLevel" THEN "FromLevel" ELSE "ToLevel",
                in |-> conv.out,
                out |-> IF conv.op = "ToLevel" THEN FromLevel(conv.out) ELSE ToLevel(conv.out),
                chained |-> TRUE,
                first |-> conv.first]
    /\ UNCHANGED <<binVars, withVars, traceVars, genVars>>

\* The result is dropped.
ConvertDone ==
    /\ conv.op # "none"
    /\ conv' = NotConverted
    /\ UNCHANGED <<binVars, withVars, traceVars, genVars>>

VerbosityNext ==
    \/ \E v \in Verbosities : CallToLevel(v)
    \/ \E l \in Verbosities : CallFromLevel(l)
    \/ ConvertBack
    \/ ConvertDone

VerbositySpec ==
    Init /\ [][VerbosityNext]_vars

--------------------------------------------------------------------------
(* trace (trace/trace.go).  Goroutines call Tracer.Start, span.End and     *)
(* SpanName; a call is a goroutine's steps from statement to statement.    *)
(* A context is [list, span]: the *spanList and the span its values hold,  *)
(* 0 for none; ctxs[1] is context.Background().  A span and a spanList are *)
(* known by their index in spans and lists.                                *)

Goroutines ==
    1..MaxGoroutines

SpanNames ==
    { "main", "f" }

Background ==
    [list |-> 0, span |-> 0]

Idle ==
    [op |-> "none", c |-> 0, s |-> 0, sl |-> 0, ret |-> [kind |-> "none", name |-> ""]]

\* What a call returned: a string, or the panic of an index out of range.
Returned(name) ==
    [kind |-> "ok", name |-> name]

Panicked ==
    [kind |-> "panic", name |-> ""]

\* The goroutine is at a statement that reads or writes sl.spans.
AtSpans(p) ==
    tpc[p] \in { "append.body", "remove.body", "SpanName.len", "SpanName.last" }

\* The span started last among those End was not called on, 0 for none.
Open ==
    { s \in 1..Len(spans) : s \notin ended }

Innermost ==
    IF Open = {} THEN 0 ELSE CHOOSE s \in Open : \A t \in Open : t <= s

\* ctx, s := t.Start(ctxs[c], name), up to the call of sl.append(s): the span
\* is made, and a spanList too when the context has none.
Start(p, c, name) ==
    /\ tpc[p] = "idle"
    /\ Len(spans) < MaxSpans
    /\ spans' = Append(spans, [name |-> name, list |-> 0])
    /\ IF ctxs[c].list = 0
       THEN /\ lists' = Append(lists, <<>>)
            /\ mu' = Append(mu, 0)
            /\ tloc' = [tloc EXCEPT ![p] = [Idle EXCEPT !.op = "Start", !.c = c,
                                                       !.s = Len(spans) + 1,
                                                       !.sl = Len(lists) + 1]]
       ELSE /\ UNCHANGED <<lists, mu>>
            /\ tloc' = [tloc EXCEPT ![p] = [Idle EXCEPT !.op = "Start", !.c = c,
                                                       !.s = Len(spans) + 1,
                                                       !.sl = ctxs[c].list]]
    /\ tpc' = [tpc EXCEPT ![p] = "append.lock"]
    /\ UNCHANGED <<ctxs, ended, lifo>>
    /\ UNCHANGED <<binVars, withVars, verbVars, genVars>>

\* sl.mu.Lock() of append and of remove.
Lock(p) ==
    /\ tpc[p] \in { "append.lock", "remove.lock" }
    /\ mu[tloc[p].sl] = 0
    /\ mu' = [mu EXCEPT ![tloc[p].sl] = p]
    /\ tpc' = [tpc EXCEPT ![p] = IF tpc[p] = "append.lock" THEN "append.body" ELSE "remove.body"]
    /\ UNCHANGED <<ctxs, spans, lists, tloc, ended, lifo>>
    /\ UNCHANGED <<binVars, withVars, verbVars, genVars>>

\* sl.spans = append(sl.spans, s); s.list = sl.
appendBody(p) ==
    /\ tpc[p] = "append.body"
    /\ lists' = [lists EXCEPT ![tloc[p].sl] = Append(@, tloc[p].s)]
    /\ spans' = [spans EXCEPT ![tloc[p].s].list = tloc[p].sl]
    /\ tpc' = [tpc EXCEPT ![p] = "append.unlock"]
    /\ UNCHANGED <<ctxs, mu, tloc, ended, lifo>>
    /\ UNCHANGED <<binVars, withVars, verbVars, genVars>>

\* remove dropping the last span whichever span it was given.
removedAny(l, s) ==
    IF Len(l) > 0 THEN SubSeq(l, 1, Len(l) - 1) ELSE l

\* sl.spans after the body of sl.remove(s).
removed(l, s) ==
    IF Len(l) > 0 /\ l[Len(l)] = s THEN SubSeq(l, 1, Len(l) - 1) ELSE l

removeBody(p) ==
    /\ tpc[p] = "remove.body"
    /\ lists' = [lists EXCEPT ![tloc[p].sl] = removed(@, tloc[p].s)]
    /\ tpc' = [tpc EXCEPT ![p] = "remove.unlock"]
    /\ UNCHANGED <<ctxs, spans, mu, tloc, ended, lifo>>
    /\ UNCHANGED <<binVars, withVars, verbVars, genVars>>

\* The deferred sl.mu.Unlock() and the return: Start returns the context
\* that holds the list and the span.
Unlock(p) ==
    /\ tpc[p] \in { "append.unlock", "remove.unlock" }
    /\ mu' = [mu EXCEPT ![tloc[p].sl] = 0]
    /\ ctxs' = IF tpc[p] = "append.unlock"
               THEN Append(ctxs, [list |-> tloc[p].sl, span |-> tloc[p].s])
               ELSE ctxs
    /\ tpc' = [tpc EXCEPT ![p] = "idle"]
    /\ UNCHANGED <<spans, lists, tloc, ended, lifo>>
    /\ UNCHANGED <<binVars, withVars, verbVars, genVars>>

\* s.End() on a span that a Start returned, up to the call of s.list.remove(s).
End(p, s) ==
    /\ tpc[p] = "idle"
    /\ \E c \in 1..Len(ctxs) : ctxs[c].span = s
    /\ tloc' = [tloc EXCEPT ![p] = [Idle EXCEPT !.op = "End", !.s = s, !.sl = spans[s].list]]
    /\ tpc' = [tpc EXCEPT ![p] = "remove.lock"]
    /\ ended' = ended \cup {s}
    /\ lifo' = (lifo /\ s = Innermost)
    /\ UNCHANGED <<ctxs, spans, lists, mu>>
    /\ UNCHANGED <<binVars, withVars, verbVars, genVars>>

\* SpanName(ctxs[c]), up to the test of len(sl.spans).
SpanName(p, c) ==
    /\ tpc[p] = "idle"
    /\ IF ctxs[c].list = 0
       THEN /\ tloc' = [tloc EXCEPT ![p] = [Idle EXCEPT !.op = "SpanName", !.c = c,
                                                       !.ret = Returned("")]]
            /\ tpc' = tpc
       ELSE /\ tloc' = [tloc EXCEPT ![p] = [Idle EXCEPT !.op = "SpanName", !.c = c,
                                                       !.sl = ctxs[c].list]]
            /\ tpc' = [tpc EXCEPT ![p] = "SpanName.len"]
    /\ UNCHANGED <<ctxs, spans, lists, mu, ended, lifo>>
    /\ UNCHANGED <<binVars, withVars, verbVars, genVars>>

\* What a read of sl.spans can find while another goroutine is inside
\* append or remove on the list: the accesses race, and the slice read may be
\* the one before the write, the one after it, or neither.
RacyReads(sl) ==
    { lists[sl], Append(lists[sl], 0) } \cup { SubSeq(lists[sl], 1, n) : n \in 0..Len(lists[sl]) }

Reads(sl) ==
    IF mu[sl] = 0 THEN { lists[sl] } ELSE RacyReads(sl)

\* if !ok || len(sl.spans) == 0 { return "" }
SpanNameLen(p) ==
    /\ tpc[p] = "SpanName.len"
    /\ \E l \in Reads(tloc[p].sl) :
           IF Len(l) = 0
           THEN /\ tloc' = [tloc EXCEPT ![p].ret = Returned("")]
                /\ tpc' = [tpc EXCEPT ![p] = "idle"]
           ELSE /\ tloc' = tloc
                /\ tpc' = [tpc EXCEPT ![p] = "SpanName.last"]
    /\ UNCHANGED <<ctxs, spans, lists, mu, ended, lifo>>
    /\ UNCHANGED <<binVars, withVars, verbVars, genVars>>

\* return sl.spans[len(sl.spans)-1].Name(): the slice is read anew.
SpanNameLast(p) ==
    /\ tpc[p] = "SpanName.last"
    /\ \E l \in Reads(tloc[p].sl) :
           tloc' = [tloc EXCEPT ![p].ret =
                        IF Len(l) = 0 \/ l[Len(l)] = 0 THEN Panicked
                        ELSE Returned(spans[l[Len(l)]].name)]
    /\ tpc' = [tpc EXCEPT ![p] = "idle"]
    /\ UNCHANGED <<ctxs, spans, lists, mu, ended, lifo>>
    /\ UNCHANGED <<binVars, withVars, verbVars, genVars>>

Step(p) ==
    \/ \E c \in 1..Len(ctxs), name \in SpanNames : Start(p, c, name)
    \/ Lock(p)
    \/ appendBody(p)
    \/ removeBody(p)
    \/ Unlock(p)
    \/ \E s \in 1..Len(spans) : End(p, s)
    \/ \E c \in 1..Len(ctxs) : SpanName(p, c)
    \/ SpanNameLen(p)
    \/ SpanNameLast(p)

\* Goroutines that call into the package at will, until MaxRacingSpans spans
\* were started.
TraceNext ==
    \E p \in Goroutines : Step(p) /\ Len(spans') <= MaxRacingSpans

TraceSpec ==
    Init /\ [][TraceNext]_vars

\* One goroutine: the calls follow one another.
SeqTraceNext ==
    Step(1)

SeqTraceSpec ==
    Init /\ [][SeqTraceNext]_vars

--------------------------------------------------------------------------
(* handlers/general (handlers/general/general_handler.go).  A slice is     *)
(* [arr, len, cap]: its backing array, known by its index among the arrays *)
(* of its element type (0 for a nil slice), its length and its capacity;   *)
(* an array is the sequence of its cap elements.  A []byte array holds     *)
(* bytes, 0 where nothing was written; a []string array holds strings.     *)

NilSlice ==
    [arr |-> 0, len |-> 0, cap |-> 0]

\* The elements of the slice s over the arrays arrs.
Elems(arrs, s) ==
    IF s.len = 0 THEN <<>> ELSE SubSeq(arrs[s.arr], 1, s.len)

\* slices.Clip(s): s[:len(s):len(s)].
Clip(s) ==
    [s EXCEPT !.cap = s.len]

\* A clone that keeps the capacity of the slice it copies.
Unclipped(s) ==
    s

\* The allocator's size classes up to 256 bytes (runtime/sizeclasses.go).
SizeClasses ==
    <<8, 16, 24, 32, 48, 64, 80, 96, 112, 128, 144, 160, 176, 192, 208, 224, 240, 256>>

\* runtime.roundupsize for the sizes of the model.
roundupsize(n) ==
    LET fit == { i \in 1..Len(SizeClasses) : SizeClasses[i] >= n }
    IN  IF fit = {} THEN n
        ELSE SizeClasses[CHOOSE i \in fit : \A j \in fit : i <= j]

\* runtime.growslice: the capacity of the array that append allocates when
\* newLen elements of elemsize bytes do not fit a capacity of oldCap < 256.
growslice(oldCap, newLen, elemsize) ==
    LET newcap == IF newLen > oldCap + oldCap THEN newLen ELSE oldCap + oldCap
    IN  roundupsize(newcap * elemsize) \div elemsize

\* append(s, xs...) over the arrays m.arrs, for the slice m.s: the arrays
\* and the slice after.  Elements that fit the capacity are written into
\* the backing array; otherwise a new array is allocated and s copied to it.
GoAppend(m, xs, elemsize) ==
    LET s == m.s
        n == s.len + Len(xs)
    IN  IF Len(xs) = 0 THEN m
        ELSE IF n <= s.cap
        THEN [arrs |-> [m.arrs EXCEPT ![s.arr] =
                           [i \in 1..Len(@) |-> IF i > s.len /\ i <= n THEN xs[i - s.len] ELSE @[i]]],
              s |-> [s EXCEPT !.len = n]]
        ELSE LET c == growslice(s.cap, n, elemsize)
                 old == Elems(m.arrs, s)
             IN  [arrs |-> Append(m.arrs,
                                  [i \in 1..c |-> IF i <= s.len THEN old[i]
                                                  ELSE IF i <= n THEN xs[i - s.len]
                                                  ELSE 0]),
                  s |-> [arr |-> Len(m.arrs) + 1, len |-> n, cap |-> c]]

RECURSIVE Decimal(_)
\* strconv.AppendInt(nil, n, 10) and fmt.Sprint(n) for n >= 0.
Decimal(n) ==
    IF n < 10 THEN <<48 + n>> ELSE Decimal(n \div 10) \o <<48 + (n % 10)>>

\* fmt's %q of a string of letters and digits: the string in double quotes.
Quoted(s) ==
    <<34>> \o s \o <<34>>

RECURSIVE Join(_, _)
\* strings.Join(groups, ".") + ".", for a non-empty list, from element i on.
Join(groups, i) ==
    IF i > Len(groups) THEN <<>> ELSE groups[i] \o <<46>> \o Join(groups, i + 1)

\* The Formatter methods.  f is "json" for a jsonFormatter and "text" for a
\* textFormatter.  Each only appends to the buffer it is given: it is
\* modelled on the bytes of the buffer, and returns the bytes after.
AppendBegin(f, b) ==
    IF f = "json" THEN b \o <<123>> ELSE b

AppendEnd(f, b) ==
    IF f = "json" THEN b \o <<125>> ELSE b

AppendSeparatorIfNeeded(f, b) ==
    IF f = "json"
    THEN IF Len(b) > 0 /\ b[Len(b)] # 123 /\ b[Len(b)] # 44 THEN b \o <<44>> ELSE b
    ELSE IF Len(b) > 0 /\ b[Len(b)] # 32 THEN b \o <<32>> ELSE b

AppendOpenGroup(f, b, name) ==
    IF f = "json"
    THEN AppendSeparatorIfNeeded(f, b) \o Quoted(name) \o <<58, 123>>
    ELSE b

AppendCloseGroup(f, b, name) ==
    IF f = "json" THEN b \o <<125>> ELSE b

\* The text of a value that is no group: what appendTextValue appends, and
\* what the switch of jsonFormatter.AppendAttr appends.  An Any value is one
\* that marshals to its text s, as a slog.Level does.
TextOfValue(v) ==
    CASE v.kind = "Int64" -> Decimal(IntOf(v.w))
      [] v.kind = "Bool" -> IF v.b THEN <<116, 114, 117, 101>> ELSE <<102, 97, 108, 115, 101>>
      [] OTHER -> v.s

JSONOfValue(v) ==
    CASE v.kind = "Int64" -> Decimal(IntOf(v.w))
      [] v.kind = "String" -> Quoted(v.s)
      [] v.kind = "Any" -> Quoted(v.s)
      [] OTHER -> TextOfValue(v)

RECURSIVE AppendAttr(_, _, _, _)
RECURSIVE AppendAttrsOf(_, _, _, _, _)
\* The range loop over a group's attrs, from attr i on.
AppendAttrsOf(f, b, as, i, openGroups) ==
    IF i > Len(as) THEN b
    ELSE AppendAttrsOf(f, AppendAttr(f, b, as[i], openGroups), as, i + 1, openGroups)

\* f.AppendAttr(buf, a, openGroups); openGroups is the list of names (the
\* text formatter clips the slice before it appends to it).
AppendAttr(f, b, a0, openGroups) ==
    LET a == Attr(a0.key, Resolve(a0.value))
        b1 == AppendSeparatorIfNeeded(f, b)
    IN  IF f = "json"
        THEN IF a.value.kind = "Group"
             THEN LET b2 == IF a.key # <<>> THEN b1 \o Quoted(a.key) \o <<58, 123>> ELSE b1
                      b3 == AppendAttrsOf(f, b2, a.value.sub, 1, openGroups)
                  IN  IF a.key # <<>> THEN b3 \o <<125>> ELSE b3
             ELSE b1 \o Quoted(a.key) \o <<58>> \o JSONOfValue(a.value)
        ELSE IF a.value.kind = "Group"
             THEN AppendAttrsOf(f, b1, a.value.sub, 1,
                                IF a.key # <<>> THEN Append(openGroups, a.key) ELSE openGroups)
             ELSE LET k == IF Len(openGroups) > 0 THEN Join(openGroups, 1) \o a.key ELSE a.key
                  IN  b1 \o k \o <<61>> \o TextOfValue(a.value)

\* h.appendAttr(buf, f, a, includeGroups) with no ReplaceAttr option; groups
\* is h.groups as a list.
appendAttr(f, groups, b, a, includeGroups) ==
    IF a.key # <<>> \/ a.value.kind = "Group"
    THEN AppendAttr(f, b, a, IF includeGroups THEN groups ELSE <<>>)
    ELSE b

RECURSIVE appendAttrs(_, _, _, _, _)
\* for _, a := range as { buf = h.appendAttr(buf, f, a, true) }, from i on.
appendAttrs(f, groups, b, as, i) ==
    IF i > Len(as) THEN b
    ELSE appendAttrs(f, groups, appendAttr(f, groups, b, as[i], TRUE), as, i + 1)

RECURSIVE closeGroups(_, _, _, _)
\* for i := len(h.groups) - 1; i >= 0; i-- { buf = f.AppendCloseGroup(...) }
closeGroups(f, b, groups, i) ==
    IF i < 1 THEN b ELSE closeGroups(f, AppendCloseGroup(f, b, groups[i]), groups, i - 1)

\* The keys and texts of the built-in attrs: "level", "INFO", "msg", "m".
LevelKey == <<108, 101, 118, 101, 108>>
LevelText == <<73, 78, 70, 79>>
MessageKey == <<109, 115, 103>>
Message == <<109>>

\* Handle up to h.mu.Lock(), for a record at level INFO with the message "m",
\* no time and the attrs rattrs: the bytes of buf, which Handle makes anew.
\* pre and groups are what h.preformatted and h.groups hold.
Format(f, pre, groups, rattrs) ==
    LET b0 == AppendBegin(f, <<>>)
        b1 == appendAttr(f, groups, b0, Attr(LevelKey, AnyValue(TRUE, LevelText, "nil")), FALSE)
        b2 == appendAttr(f, groups, b1, Attr(MessageKey, StringValue(Message)), FALSE)
        b3 == IF Len(pre) > 0 THEN AppendSeparatorIfNeeded(f, b2) \o pre ELSE b2
        b4 == appendAttrs(f, groups, b3, rattrs, 1)
    IN  AppendEnd(f, closeGroups(f, b4, groups, Len(groups)))

\* What a Formatter call makes of the slice m.s over the arrays m.arrs, when
\* after is what it makes of the slice's bytes: the bytes it adds are
\* appended to the slice.
Appended(m, after) ==
    GoAppend(m, SubSeq(after, m.s.len + 1, Len(after)), 1)

\* The copy of a sync.Mutex: one copied while it is held stays locked, with
\* no goroutine to unlock it.
CopyOfMutex(state) ==
    IF state = 0 THEN 0 ELSE 0 - 1

\* A clone that shares the Handler's backing arrays at their full capacity.
cloneUnclipped(h) ==
    [h EXCEPT !.groups = Unclipped(@), !.preformatted = Unclipped(@),
              !.mu = CopyOfMutex(@)]

\* h.clone(): c := *h copies every field, the mutex too.
clone(h) ==
    [h EXCEPT !.groups = Clip(@), !.preformatted = Clip(@), !.mu = CopyOfMutex(@)]

\* The formatters, the group name g, and the attr lists [a=1] and
\* [b=2, an attr without key].
Formatters ==
    { "json", "text" }

GeneralGroups ==
    { <<103>> }

GeneralAttrs ==
    { <<Attr(<<97>>, Int64Value(U64(1)))>>,
      <<Attr(<<98>>, Int64Value(U64(2))), Attr(<<>>, Int64Value(U64(3)))>> }

GeneralRecords ==
    { <<>>, <<Attr(<<100>>, Int64Value(U64(4)))>> }

NotHandling ==
    [h |-> 0, buf |-> <<>>]

\* New(w, newFormatter): the first Handler of the family.
GeneralNew(f) ==
    /\ hs = <<>>
    /\ hs' = <<[newFormatter |-> f, preformatted |-> NilSlice, groups |-> NilSlice,
                mu |-> 0, w |-> 1]>>
    /\ UNCHANGED <<barrs, sarrs, gpc, gloc, out>>
    /\ UNCHANGED <<binVars, withVars, verbVars, traceVars>>

\* hs[h].WithGroup(name): the Handler returned joins the family.
GeneralWithGroup(h, name) ==
    /\ Len(hs) < MaxHandlers
    /\ LET c == clone(hs[h])
           g == GoAppend([arrs |-> sarrs, s |-> c.groups], <<name>>, 16)
           m == [arrs |-> barrs, s |-> c.preformatted]
           p == Appended(m, AppendOpenGroup(c.newFormatter, Elems(barrs, c.preformatted), name))
       IN  /\ sarrs' = g.arrs
           /\ barrs' = p.arrs
           /\ hs' = Append(hs, [c EXCEPT !.groups = g.s, !.preformatted = p.s])
    /\ UNCHANGED <<gpc, gloc, out>>
    /\ UNCHANGED <<binVars, withVars, verbVars, traceVars>>

\* hs[h].WithAttrs(as).
GeneralWithAttrs(h, as) ==
    /\ Len(hs) < MaxHandlers
    /\ LET c == clone(hs[h])
           m == [arrs |-> barrs, s |-> c.preformatted]
           p == Appended(m, appendAttrs(c.newFormatter, Elems(sarrs, c.groups),
                                        Elems(barrs, c.preformatted), as, 1))
       IN  /\ barrs' = p.arrs
           /\ hs' = Append(hs, [c EXCEPT !.preformatted = p.s])
    /\ UNCHANGED <<sarrs, gpc, gloc, out>>
    /\ UNCHANGED <<binVars, withVars, verbVars, traceVars>>

\* hs[h].Handle(ctx, r) in goroutine p, up to h.mu.Lock().
GeneralHandle(p, h, rattrs) ==
    /\ gpc[p] = "idle"
    /\ gloc' = [gloc EXCEPT ![p] =
                   [h |-> h,
                    buf |-> Format(hs[h].newFormatter, Elems(barrs, hs[h].preformatted),
                                   Elems(sarrs, hs[h].groups), rattrs)]]
    /\ gpc' = [gpc EXCEPT ![p] = "Lock"]
    /\ out' = IF \A q \in Goroutines : gpc[q] = "idle" THEN <<>> ELSE out
    /\ UNCHANGED <<hs, barrs, sarrs>>
    /\ UNCHANGED <<binVars, withVars, verbVars, traceVars>>

\* h.mu.Lock().
GeneralLock(p) ==
    /\ gpc[p] = "Lock"
    /\ hs[gloc[p].h].mu = 0
    /\ hs' = [hs EXCEPT ![gloc[p].h].mu = p]
    /\ gpc' = [gpc EXCEPT ![p] = "Write"]
    /\ UNCHANGED <<barrs, sarrs, gloc, out>>
    /\ UNCHANGED <<binVars, withVars, verbVars, traceVars>>

\* _, err := h.w.Write(buf): the goroutine is inside Write until this step.
GeneralWrite(p) ==
    /\ gpc[p] = "Write"
    /\ out' = gloc[p].buf
    /\ gpc' = [gpc EXCEPT ![p] = "Unlock"]
    /\ UNCHANGED <<hs, barrs, sarrs, gloc>>
    /\ UNCHANGED <<binVars, withVars, verbVars, traceVars>>

\* The deferred h.mu.Unlock() and the return.
GeneralUnlock(p) ==
    /\ gpc[p] = "Unlock"
    /\ hs' = [hs EXCEPT ![gloc[p].h].mu = 0]
    /\ gpc' = [gpc EXCEPT ![p] = "idle"]
    /\ gloc' = [gloc EXCEPT ![p] = NotHandling]
    /\ UNCHANGED <<barrs, sarrs, out>>
    /\ UNCHANGED <<binVars, withVars, verbVars, traceVars>>

GeneralStep(p) ==
    \/ \E h \in 1..Len(hs), rattrs \in GeneralRecords : GeneralHandle(p, h, rattrs)
    \/ GeneralLock(p)
    \/ GeneralWrite(p)
    \/ GeneralUnlock(p)

GeneralDerive ==
    \/ \E f \in Formatters : GeneralNew(f)
    \/ \E h \in 1..Len(hs), name \in GeneralGroups : GeneralWithGroup(h, name)
    \/ \E h \in 1..Len(hs), as \in GeneralAttrs : GeneralWithAttrs(h, as)

\* A family of Handlers that one goroutine derives and logs to, one call
\* after the other.
GeneralNext ==
    \/ gpc[1] = "idle" /\ GeneralDerive
    \/ GeneralStep(1)

GeneralSpec ==
    Init /\ [][GeneralNext]_vars

\* Goroutines that derive from and log to a family of up to
\* MaxRacingHandlers Handlers.
GeneralRaceNext ==
    /\ \/ GeneralDerive
       \/ \E p \in Goroutines : GeneralStep(p)
    /\ Len(hs') <= MaxRacingHandlers

GeneralRaceSpec ==
    Init /\ [][GeneralRaceNext]_vars

--------------------------------------------------------------------------
(* What the claims speak of.                                               *)

\* Decode was called on a frame that a WriteTo of the encoder wrote in full.
DecodingWritten ==
    wstate = "returned" /\ werr = "nil" /\ dpc # "idle"

\* The kinds Decode has a case for.
DecodableKinds ==
    {"String", "Int64", "Uint64", "Float64", "Bool"}

\* The visitor call that reports value v (resolved) under key k.
Expect(k, v) ==
    CASE v.kind = "Int64" -> Call("Int", k, v.w, <<>>, FALSE)
      [] v.kind = "Uint64" -> Call("Uint", k, v.w, <<>>, FALSE)
      [] v.kind = "Float64" -> Call("Float", k, v.w, <<>>, FALSE)
      [] v.kind = "Bool" -> Call("Bool", k, U64(0), <<>>, v.b)
      [] v.kind = "String" -> Call("String", k, U64(0), v.s, FALSE)

\* The record appended so far is whole attrs of decodable kinds.
DecodableRecord ==
    /\ Len(hist) % 2 = 0
    /\ \A i \in 1..(Len(hist) \div 2) : Resolve(hist[2 * i]).kind \in DecodableKinds

\* C1: round trip.  When a frame holding one key/value pair of a decodable
\* kind is decoded, the visitor is called, and its first call is the
\* method of the value's kind with the original key and the original value.
C1_RoundTrip ==
    (/\ DecodingWritten
     /\ Len(hist) = 2
     /\ DecodableRecord
     /\ dpc = "done" \/ calls # <<>>)
        => /\ calls # <<>>
           /\ calls[1] = Expect(hist[1].s, Resolve(hist[2]))

\* C2: Decode's loop advances.  On a frame the encoder wrote from decodable
\* attrs, once the loop body has run, the buffer the loop tests is shorter
\* than the payload (so that the loop can run out of payload and return).
C2_LoopAdvances ==
    (DecodingWritten /\ DecodableRecord /\ dpc = "loop" /\ calls # <<>>)
        => Len(dbuf) < Len(buf)

\* C3: one visitor call per entry, in payload order.  On a frame of k
\* decodable attrs the calls made so far are the first calls of the k
\* expected ones, never more than k, and all k when Decode has returned.
C3_OncePerEntry ==
    (DecodingWritten /\ DecodableRecord)
        => /\ Len(calls) <= Len(hist) \div 2
           /\ \A i \in 1..Len(calls) :
                  i <= Len(hist) \div 2 => calls[i] = Expect(hist[2 * i - 1].s, Resolve(hist[2 * i]))
           /\ dpc = "done" => dret = RetNil /\ Len(calls) = Len(hist) \div 2

\* C4: Decode never panics, whatever bytes the source holds.
C4_NeverPanics ==
    dret.kind # "panic"

\* The four bytes of n < 2^31, least significant first.
LittleEndian4(n) ==
    <<n % 256, (n \div 256) % 256, (n \div 65536) % 256, (n \div 16777216) % 256>>

\* C5: framing.  When the encoder holds no error and the writer takes
\* every byte, WriteTo hands it two slices, the 8-byte header and then the
\* buffer, and the writer ends up with 01 DC FE BA, the buffer's length in
\* four little-endian bytes and the buffer itself: 8 + len(buf) bytes.
C5_Framing ==
    (wstate = "returned" /\ err = "nil" /\ ~w.limited)
        => /\ werr = "nil"
           /\ writes = <<8, Len(buf)>>
           /\ Len(w.data) = 8 + Len(buf)
           /\ w.data = <<1, 220, 254, 186>> \o LittleEndian4(Len(buf)) \o buf

\* C5's case: a frame of more than 255 payload bytes went out in full.
C5_Witness ==
    wstate = "returned" /\ err = "nil" /\ ~w.limited /\ Len(buf) > 255 /\ Len(hist) = 4

\* C6: the decoder reads a string's length the way the encoder wrote it.
\* On a frame the encoder wrote, once the loop body has run, the key it
\* decoded is the first key appended, and when the first value was a
\* string the visitor's String call carries exactly its bytes.
C6_SameLengthRule ==
    (DecodingWritten /\ Len(hist) >= 2 /\ (dpc = "done" \/ calls # <<>>))
        => /\ key = hist[1].s
           /\ Resolve(hist[2]).kind = "String"
                => /\ calls # <<>>
                   /\ calls[1].m = "String"
                   /\ calls[1].s = Resolve(hist[2]).s

\* The bytes the small-int rule asks for: b is they, for the int64 word i.
SmallIntRule(i, b) ==
    IF \E n \in 0..199 : i = U64(n)
    THEN \E n \in 0..199 : i = U64(n) /\ b = <<n>>
    ELSE /\ Len(b) >= 2
         /\ b[1] = 200
         /\ Varint(Tail(b)) = [x |-> i, n |-> Len(b) - 1]

\* C7: the small-int rule.  An EncodeValue of an int64 i appends one byte
\* of value i when 0 <= i < 200, and otherwise the byte 200 (opInt) and
\* then bytes that binary.Varint reads back, all of them, as i.  The
\* length the encoder writes in front of a key's bytes obeys the same rule.
C7_SmallInt ==
    [][(Len(hist') = Len(hist) + 1 /\ Len(buf') >= Len(buf))
        => LET v == hist'[Len(hist')]
               added == SubSeq(buf', Len(buf) + 1, Len(buf'))
           IN  /\ SubSeq(buf', 1, Len(buf)) = buf
               /\ v.kind = "Int64" => SmallIntRule(v.w, added)
               /\ (v.kind = "String" /\ Len(added) >= 1 + Len(v.s))
                    => SmallIntRule(U64(Len(v.s)), SubSeq(added, 2, Len(added) - Len(v.s)))]_vars

\* C7's case: the encoder has appended the least int64 and then the int64 7.
C7_Witness ==
    /\ Len(hist) = 4
    /\ hist[2] = Int64Value(MinInt64)
    /\ hist[4] = Int64Value(U64(7))
    /\ buf[Len(buf)] = 7

RECURSIVE Failures(_)
RECURSIVE FailuresIn(_, _, _)
\* The marshaling errors that encoding the value v meets, in the order met.
Failures(v) ==
    CASE v.kind = "Time" -> IF v.err # "nil" THEN <<v.err>> ELSE <<>>
      [] v.kind = "Any" -> IF v.b /\ v.err # "nil" THEN <<v.err>> ELSE <<>>
      [] v.kind = "LogValuer" -> Failures(v.sub[1].value)
      [] v.kind = "Group" -> FailuresIn(v.sub, 1, Len(v.sub))
      [] OTHER -> <<>>

FailuresIn(attrs, lo, hi) ==
    IF lo > hi THEN <<>>
    ELSE IF lo = hi THEN Failures(attrs[lo].value)
    ELSE FailuresIn(attrs, lo, (lo + hi) \div 2) \o FailuresIn(attrs, (lo + hi) \div 2 + 1, hi)

\* Those met by the appends made since GetEncoder.
Failed ==
    FailuresIn([i \in 1..Len(hist) |-> [key |-> <<>>, value |-> hist[i]]], 1, Len(hist))

\* C8 as stated: once a marshaling failure has set the error, the encoder
\* keeps an error until the next GetEncoder, and every WriteTo returns the
\* error of that failure with count 0, writing nothing.
C8_ReturnsThatError ==
    Failed # <<>>
        => /\ err # "nil"
           /\ wstate = "returned"
                => werr = Failed[1] /\ wn = 0 /\ writes = <<>> /\ w.data = <<>>

\* C8 as amended: ... every WriteTo returns the error of the latest
\* marshaling failure (a later failure replaces the recorded error) with
\* count 0, writing nothing; and GetEncoder leaves no error.
C8_StickyError ==
    /\ Failed # <<>>
         => /\ err = Failed[Len(Failed)]
            /\ wstate = "returned"
                 => werr = Failed[Len(Failed)] /\ wn = 0 /\ writes = <<>> /\ w.data = <<>>
    /\ Failed = <<>> => err = "nil"

\* C8's case: WriteTo was called after two failures with different errors.
C8_Witness ==
    /\ wstate = "returned"
    /\ Len(Failed) = 2
    /\ Failed[1] # Failed[2]
    /\ ~w.limited
    /\ wn = 0

\* C9: on a failed write WriteTo returns the number of bytes written so
\* far over both writes, and makes no second write when the first failed.
C9_CountsBothWrites ==
    (wstate = "returned" /\ writes # <<>> /\ werr # "nil")
        => /\ wn = Len(w.data)
           /\ Len(w.data) < 8 => writes = <<8>>

\* C10: magic mismatch.  When the first four bytes of an 8-byte header are
\* not 01 DC FE BA, Decode returns the error made from "got magic %x, want
\* %x" with the magic read and 0xBAFEDC01, has read the 8 header bytes and
\* no more, and has made no visitor call.
C10_MagicMismatch ==
    (dpc # "idle" /\ Len(r) >= 8 /\ SubSeq(r, 1, 4) # <<1, 220, 254, 186>>)
        => /\ dpc = "done"
           /\ dret.kind = "error"
           /\ dret.msg = "got magic %x, want %x"
           /\ dret.a = <<r[3] + 256 * r[4], r[1] + 256 * r[2]>>
           /\ dret.b = <<47870, 56321>>
           /\ rpos = 8
           /\ calls = <<>>

\* C10's case: a header with another magic in front of a payload.
C10_Witness ==
    /\ dpc = "done"
    /\ dret.msg = "got magic %x, want %x"
    /\ Len(r) > 8
    /\ rpos = 8

\* The source of the Decode call starts with the magic and holds fewer
\* bytes after its header than the header's length field declares.
PayloadCutShort ==
    /\ Len(r) >= 8
    /\ SubSeq(r, 1, 4) = <<1, 220, 254, 186>>
    /\ \/ r[7] > 0
       \/ r[8] > 0
       \/ r[5] + 256 * r[6] > Len(r) - 8

\* C11: short reads are fatal.  When the source ends inside the 8 header
\* bytes, or (after a header with the right magic) before the payload the
\* header declares is complete, Decode has returned io.EOF or
\* io.ErrUnexpectedEOF and the visitor has not been called.
C11_ShortReadsAreFatal ==
    (dpc # "idle" /\ (Len(r) < 8 \/ PayloadCutShort))
        => /\ dpc = "done"
           /\ dret \in {RetError("EOF"), RetError("unexpected EOF")}
           /\ calls = <<>>

\* C11's case: a frame the encoder wrote reached the reader two payload
\* bytes long, the rest cut off.
C11_Witness ==
    /\ dpc = "done"
    /\ wstate = "returned"
    /\ Len(r) = 10
    /\ PayloadCutShort
    /\ dret = RetError("unexpected EOF")

\* The payload from the entry boundary Decode has come to: the whole of it
\* before the first visitor call, and after a call what the loop body that
\* made it left unread.
EntryBoundary ==
    IF calls = <<>> THEN dbuf ELSE ibuf

\* C12: non-string key.  When Decode goes on from an entry boundary, the
\* first or a later one, that holds a byte other than opString, it returns
\* the "key is not a string" error and the visitor calls stay those made
\* for the earlier entries.
C12_NonStringKey ==
    [][(/\ dpc = "loop"
        /\ Len(calls) < MaxCalls
        /\ dpc' # "idle"
        /\ r' = r
        /\ EntryBoundary # <<>>
        /\ EntryBoundary[1] # opString)
          => /\ dpc' = "done"
             /\ dret' = RetError("key is not a string")
             /\ calls' = calls]_vars

\* C13: pool exclusivity.  Whatever the order in which producers call
\* GetEncoder and PutEncoder (each PutEncoder on the instance its producer
\* holds, once), no instance is held by two producers at a time.
C13_PoolExclusive ==
    \A p \in Producers : \A q \in Producers :
        (p # q /\ has[p] # 0) => has[p] # has[q]

\* C13's case: two producers each hold an instance while another that was
\* put back lies in the pool.
C13_Witness ==
    /\ has[1] # 0
    /\ has[2] # 0
    /\ \E x \in Instances : pool[x] > 0

RECURSIVE EncodeAll(_, _, _)
\* The encoder after the calls h[i], h[i+1], ... made on e: an EncodeKey at
\* each odd place of h, an EncodeValue at each even one.
EncodeAll(e, h, i) ==
    IF i > Len(h) THEN e
    ELSE EncodeAll(IF i % 2 = 1 THEN EncodeKey(e, h[i].s) ELSE EncodeValue(e, h[i]), h, i + 1)

\* C14: GetEncoder returns a clean encoder.  Whatever the instance went
\* through before it was put back, a GetEncoder leaves it with an empty
\* buffer and no error; and a frame written in full holds the header and
\* the bytes of the appends made since that GetEncoder, nothing else.
C14_CleanEncoder ==
    /\ [][(~held /\ held') => (buf' = <<>> /\ err' = "nil")]_vars
    /\ []((wstate = "returned" /\ werr = "nil")
            => w.data = Frame(EncodeAll([buf |-> <<>>, err |-> "nil"], hist, 1).buf))

\* C14's case: the instance GetEncoder is about to hand out was put back
\* with a buffer grown past the 1024 bytes of abuf and a recorded error.
C14_Witness ==
    /\ ~held
    /\ \E x \in Instances : pool[x] > 0
    /\ Len(buf) > 1024
    /\ err # "nil"

\* An encoder as GetEncoder returns it.
Fresh ==
    [buf |-> <<>>, err |-> "nil"]

RECURSIVE ChildrenBytes(_, _, _)
RECURSIVE GroupRule(_, _)
\* For the attrs lo..hi: each one's key as EncodeKey writes it, followed by
\* its value as EncodeValue writes it, in the order of attrs.
ChildrenBytes(attrs, lo, hi) ==
    IF lo > hi THEN <<>>
    ELSE IF lo = hi
    THEN EncodeKey(Fresh, attrs[lo].key).buf \o EncodeValue(Fresh, attrs[lo].value).buf
    ELSE ChildrenBytes(attrs, lo, (lo + hi) \div 2)
             \o ChildrenBytes(attrs, (lo + hi) \div 2 + 1, hi)

\* The bytes b are what the group rule asks for the group v: opList, the
\* count 2 * n under the small-int rule, the attrs; and so for each attr that
\* is a group in its turn.
GroupRule(v, b) ==
    LET rest == ChildrenBytes(v.sub, 1, Len(v.sub))
        c == Len(b) - 1 - Len(rest)
    IN  /\ c >= 1
        /\ b[1] = 209
        /\ SmallIntRule(U64(2 * Len(v.sub)), SubSeq(b, 2, 1 + c))
        /\ SubSeq(b, 2 + c, Len(b)) = rest
        /\ Len(v.sub) = 0 => b = <<209, 0>>
        /\ \A i \in 1..Len(v.sub) :
               Resolve(v.sub[i].value).kind = "Group"
                   => GroupRule(Resolve(v.sub[i].value),
                                EncodeValue(Fresh, v.sub[i].value).buf)

\* C15: group encoding.  An EncodeValue of a group of n attrs appends
\* opList, then 2 * n as the small-int rule writes it, then for each attr in
\* order its key and its value; an attr that is a group is written in place
\* by the same rule and counts for 2; the empty group appends opList and 0.
C15_GroupEncoding ==
    [][(Len(hist') = Len(hist) + 1 /\ Resolve(hist'[Len(hist')]).kind = "Group")
        => /\ SubSeq(buf', 1, Len(buf)) = buf
           /\ GroupRule(Resolve(hist'[Len(hist')]), SubSeq(buf', Len(buf) + 1, Len(buf')))]_vars

\* C15's case: a group of 100 attrs, one of them a group, was appended.
C15_Witness ==
    /\ Len(hist) = 2
    /\ hist[2].kind = "Group"
    /\ Len(hist[2].sub) = 100
    /\ hist[2].sub[1].value.kind = "Group"

RECURSIVE GroupCalls(_, _)
RECURSIVE AttrCalls(_, _)
\* The methods and keys of the visitor calls that report the group v under
\* key k depth first: Group for v, then the calls for its attrs in order.
\* (DecodeVisitor's Group method takes the count alone, no key.)
GroupCalls(k, v) ==
    <<[m |-> "Group", key |-> k]>> \o AttrCalls(v.sub, 1)

AttrCalls(attrs, i) ==
    IF i > Len(attrs) THEN <<>>
    ELSE LET v == Resolve(attrs[i].value)
         IN  (IF v.kind = "Group"
              THEN GroupCalls(attrs[i].key, v)
              ELSE <<[m |-> Expect(attrs[i].key, v).m, key |-> attrs[i].key]>>)
                 \o AttrCalls(attrs, i + 1)

\* The one key and value appended are a group of two attrs, one of them a
\* group.
NestedGroupAppended ==
    /\ Len(hist) = 2
    /\ hist[2].kind = "Group"
    /\ Len(hist[2].sub) = 2
    /\ \E i \in 1..2 : hist[2].sub[i].value.kind = "Group"

\* C16: group nesting round trip.  When the frame written from a key and a
\* group of two attrs, one of them a group, is decoded, every visitor call
\* made is the next one of: Group for the outer group, then its attrs depth
\* first in order, each group with the count of its attrs (n, or 2 * n as
\* on the wire); and Decode returns nil having made them all.
C16_GroupRoundTrip ==
    (DecodingWritten /\ NestedGroupAppended)
        => LET want == GroupCalls(hist[1].s, hist[2])
           IN  /\ Len(calls) <= Len(want)
               /\ \A i \in 1..Len(calls) :
                      i <= Len(want)
                          => /\ calls[i].m = want[i].m
                             /\ want[i].m # "Group" => calls[i].key = want[i].key
               /\ \A i \in 1..Len(calls) :
                      calls[i].m = "Group"
                          => \E n \in 0..2 : calls[i].w \in {U64(n), U64(2 * n)}
               /\ dpc = "done" => (dret = RetNil /\ Len(calls) = Len(want))

\* The payload the loop is about to work on holds, after a key that
\* decodeString gets through, one of the four opcodes in the value position.
UnsupportedValueNext ==
    /\ dpc = "loop"
    /\ Len(calls) < MaxCalls
    /\ dbuf # <<>>
    /\ dbuf[1] = opString
    /\ LET d == decodeString(Tail(dbuf))
       IN  d.ok /\ d.newbuf # <<>> /\ d.newbuf[1] \in {206, 207, 208, 209}

\* C17: asymmetric decode support.  No visitor call is ever one of Bytes,
\* Duration, Time or Group; and when the value position of the entry Decode
\* works on holds opBytes, opDuration, opTime or opList, Decode ends there
\* with a failure (an error or a panic, never nil) and no further call.
C17_AsymmetricDecode ==
    /\ [](\A i \in 1..Len(calls) : calls[i].m \in {"Int", "Uint", "Float", "Bool", "String"})
    /\ [][(UnsupportedValueNext /\ dpc' # "idle" /\ r' = r)
            => /\ dpc' = "done"
               /\ dret'.kind \in {"error", "panic"}
               /\ calls' = calls]_vars

\* C17's case: the encoder wrote a duration, and Decode has failed on it.
C17_Witness ==
    /\ DecodingWritten
    /\ Len(hist) = 2
    /\ hist[2].kind = "Duration"
    /\ dpc = "done"
    /\ dret = RetPanic("unknown op")
    /\ calls = <<>>

\* C18: fallback coercion.  After a key and a value of kind Any whose
\* marshaling did not fail, the buffer holds the key and then a string
\* value (opString, length, bytes): of the marshaled text when the value is
\* a TextMarshaler, of its fmt.Sprint otherwise.
C18_AnyAsString ==
    (Len(hist) = 2 /\ Resolve(hist[2]).kind = "Any" /\ err = "nil")
        => buf = encodeString(EncodeKey(Fresh, hist[1].s), Resolve(hist[2]).s).buf

\* The length field of the header written, widened to a 64-bit word.
LengthField ==
    LET f == Uint32(SubSeq(bigout.header, 5, 8))
    IN  Or64(Shl64(U64(f[1]), 16), U64(f[2]))

\* C19: capacity.  A header WriteTo writes carries the magic and, in its
\* length field, the true length of the buffer, never that length modulo
\* 2^32; and for a buffer longer than 2^32 - 1 bytes WriteTo returns an
\* error and the count 0 and writes nothing, neither header nor buffer.
C19_Capacity ==
    bigout.state = "returned"
        => /\ bigout.header # <<>>
                => /\ SubSeq(bigout.header, 1, 4) = <<1, 220, 254, 186>>
                   /\ LengthField = biglen
                   /\ bigout.payload = biglen
           /\ ULess(MaxUint32, biglen)
                => /\ bigout.err # "nil"
                   /\ bigout.n = Zero64
                   /\ bigout.header = <<>>
                   /\ bigout.payload = Zero64
           /\ ~ULess(MaxUint32, biglen) => bigout.err = "nil"

\* C19's case: WriteTo was called with 2^32 + 5 bytes in the buffer.
C19_Witness ==
    /\ bigout.state = "returned"
    /\ biglen = Or64(Shl64(U64(1), 32), U64(5))

\* The payload the loop is about to work on holds, after a key that
\* decodeString gets through, a byte below 200 in the value position.
SmallValueNext ==
    /\ dpc = "loop"
    /\ Len(calls) < MaxCalls
    /\ dbuf # <<>>
    /\ dbuf[1] = opString
    /\ LET d == decodeString(Tail(dbuf))
       IN  d.ok /\ d.newbuf # <<>> /\ d.newbuf[1] < 200

\* C20: unsigned integers never take the small-int shortcut.  An
\* EncodeValue of a uint64 u, small or not, appends opUint and then bytes
\* that binary.Uvarint reads back, all of them, as u; and a byte below 200
\* in the value position makes Decode call Int with the key and that byte.
C20_UintNoShortcut ==
    /\ [][(Len(hist') = Len(hist) + 1 /\ Resolve(hist'[Len(hist')]).kind = "Uint64")
            => LET added == SubSeq(buf', Len(buf) + 1, Len(buf'))
               IN  /\ SubSeq(buf', 1, Len(buf)) = buf
                   /\ Len(added) >= 2
                   /\ added[1] = 201
                   /\ Uvarint(Tail(added))
                          = [x |-> Resolve(hist'[Len(hist')]).w, n |-> Len(added) - 1]]_vars
    /\ [][(SmallValueNext /\ dpc' # "idle" /\ r' = r)
            => LET d == decodeString(Tail(dbuf))
               IN  calls' = Append(calls, Call("Int", d.str, U64(d.newbuf[1]), <<>>, FALSE))]_vars

\* C20's case: the uint64 5 was written and Decode has reported it.
C20_Witness ==
    /\ DecodingWritten
    /\ Len(hist) = 2
    /\ hist[2] = Uint64Value(U64(5))
    /\ buf = <<205, 0, 201, 5>>
    /\ calls # <<>>
    /\ calls[1].m = "Uint"

RECURSIVE ExpectedCalls(_, _, _)
\* The calls of f that the calls ws[i..] ask for, oldest first, when the
\* groups added before them are groups.  WithGroup("") adds no group.
ExpectedCalls(ws, i, groups) ==
    IF i > Len(ws) THEN <<>>
    ELSE IF ws[i].m = "WithGroup"
    THEN ExpectedCalls(ws, i + 1,
                       IF ws[i].name = <<>> THEN groups ELSE Append(groups, ws[i].name))
    ELSE [j \in 1..Len(ws[i].attrs) |-> [groups |-> groups, a |-> ws[i].attrs[j]]]
             \o ExpectedCalls(ws, i + 1, groups)

\* The names of the groups the calls ws added, in the order added.
GroupsAdded(ws) ==
    LET gs == SelectSeq(ws, LAMBDA c : c.m = "WithGroup" /\ c.name # <<>>)
    IN  [i \in 1..Len(gs) |-> gs[i].name]

\* C21: Apply calls f once for every attribute of every WithAttrs call, oldest
\* call first and in slice order within a call, each time with exactly the
\* names of the groups added before that attribute, in the order added; it
\* returns the names of all groups in the order added.
C21_ApplyOrder ==
    applied.state = "returned"
        => /\ applied.calls = ExpectedCalls(withs, 1, <<>>)
           /\ applied.groups = GroupsAdded(withs)

\* C21's case: With(a).WithGroup(G).With(b, d).WithGroup(H), then Apply.
C21_Witness ==
    /\ applied.state = "returned"
    /\ Len(goa) = 4
    /\ Len(applied.calls) = 3
    /\ applied.calls[1].groups = <<>>
    /\ applied.calls[3].groups = <<<<71>>>>
    /\ applied.groups = <<<<71>>, <<72>>>>

RECURSIVE Nested(_, _, _)
\* The attrs the calls ws[i..] and a record with the attrs rattrs stand for:
\* the attrs of a WithAttrs call in place, and all that follows a
\* WithGroup(name) inside one group attr called name.
Nested(ws, i, rattrs) ==
    IF i > Len(ws) THEN rattrs
    ELSE IF ws[i].m = "WithAttrs" THEN ws[i].attrs \o Nested(ws, i + 1, rattrs)
    ELSE IF ws[i].name = <<>> THEN Nested(ws, i + 1, rattrs)
    ELSE <<Attr(ws[i].name, GroupValue(Nested(ws, i + 1, rattrs)))>>

RECURSIVE Elided(_)
\* as without the groups that hold no attr at all, at any depth.
Elided(as) ==
    WithoutEmptyGroups([i \in 1..Len(as) |->
        IF as[i].value.kind = "Group"
        THEN Attr(as[i].key, GroupValue(Elided(as[i].value.sub)))
        ELSE as[i]])

\* C22: the record the simple handler passes to the handle function carries
\* the attrs of each WithAttrs call in application order, and everything added
\* after a WithGroup(name), the record's own attrs included, inside one group
\* attr called name at that position.  Built against a slog that omits empty
\* groups, a group that would hold nothing is not there.
C22_SimpleNesting ==
    handled.state = "returned"
        => handled.attrs = IF handled.omit
                           THEN Elided(Nested(withs, 1, handled.rattrs))
                           ELSE Nested(withs, 1, handled.rattrs)

\* C22's case: With(a).WithGroup(G).With(b, d).WithGroup(H) and the record
\* attr c give [a, G{b, d, H{c}}].
C22_Witness ==
    /\ handled.state = "returned"
    /\ Len(goa) = 4
    /\ handled.attrs =
           <<Attr(<<97>>, Int64Value(U64(1))),
             Attr(<<71>>, GroupValue(
                 <<Attr(<<98>>, Int64Value(U64(2))),
                   Attr(<<100>>, BoolValue(TRUE)),
                   Attr(<<72>>, GroupValue(<<Attr(<<99>>, Int64Value(U64(3)))>>))>>))>>

\* C23: Level = INFO - verbosity.  ToLevel(v) = LevelInfo - v and
\* FromLevel(l) = LevelInfo - l: the result and the argument add up to
\* LevelInfo, and n goes to -n for every n of the range tried; so
\* FromLevel(ToLevel(v)) = v and ToLevel(FromLevel(l)) = l, at the ends of the
\* int range too, where - wraps.
C23_VerbosityRoundTrip ==
    /\ conv.op # "none" => Add64(conv.out, conv.in) = LevelInfo
    /\ \A n \in (0 - MaxVerbosity)..MaxVerbosity :
           (conv.op # "none" /\ conv.in = I64(n)) => conv.out = I64(0 - n)
    /\ conv.chained => conv.out = conv.first

\* C23's case: ToLevel(4) is LevelDebug, -4, and FromLevel of it is 4 again.
C23_Witness ==
    /\ conv.chained
    /\ conv.op = "FromLevel"
    /\ conv.first = I64(4)
    /\ conv.in = I64(0 - 4)
    /\ conv.out = I64(4)

\* C24: the encoder's buffer is append-only.  Every EncodeKey and EncodeValue
\* call, one that takes the buffer past the 1024 bytes of abuf and one that
\* records a marshaling error included, leaves the bytes appended before it
\* as they were, so the buffer before the call is a prefix of the buffer
\* after it; and no append writes to a sink.
C24_AppendOnly ==
    [][Len(hist') = Len(hist) + 1
          => /\ Len(buf') >= Len(buf)
             /\ SubSeq(buf', 1, Len(buf)) = buf
             /\ writes' = <<>>
             /\ w'.data = <<>>]_vars

\* C24's case: appends took the buffer past 1024 bytes, and one after that
\* recorded an error.
C24_Witness ==
    /\ held
    /\ Len(hist) = 4
    /\ hist[2].kind = "String"
    /\ Len(hist[2].s) > 1024
    /\ Len(buf) > 1024
    /\ err # "nil"

\* C25: the span list is safe for concurrent use: under any interleaving of
\* Tracer.Start, span.End and SpanName on contexts that share a spanList, a
\* goroutine that reads or writes the list's spans slice holds the list's
\* mutex.
C25_SpansUnderMutex ==
    \A p \in Goroutines : AtSpans(p) => mu[tloc[p].sl] = p

\* The name SpanName is to return when span s is the one to report.
NameOf(s) ==
    IF s = 0 THEN "" ELSE spans[s].name

\* A SpanName call on a context that holds a span list has returned, and
\* every End so far was called on the innermost span.
SpanNameReturned ==
    /\ tpc[1] = "idle"
    /\ tloc[1].op = "SpanName"
    /\ ctxs[tloc[1].c].list # 0
    /\ lifo

\* C26 as stated: when spans end in reverse order of their start, SpanName
\* returns the name of the most recently started span that has not ended, and
\* "" once every span has ended.
C26_MostRecentOfAll ==
    SpanNameReturned => tloc[1].ret = Returned(NameOf(Innermost))

\* The span of list sl started last among those End was not called on.
InnermostIn(sl) ==
    LET open == { s \in Open : spans[s].list = sl }
    IN  IF open = {} THEN 0 ELSE CHOOSE s \in open : \A t \in open : t <= s

\* C26, amended: when spans end in reverse order of their start, SpanName on
\* a context that holds a span list returns the name of the most recently
\* started span of that list that has not ended, and "" once every span of
\* the list has ended; and an End on a span that is not the last element of
\* its list leaves the list as it was.
C26_SpanStack ==
    /\ [](SpanNameReturned
             => tloc[1].ret = Returned(NameOf(InnermostIn(ctxs[tloc[1].c].list))))
    /\ [][(tpc[1] = "remove.body" /\ tpc'[1] = "remove.unlock"
              /\ LET l == lists[tloc[1].sl]
                 IN  Len(l) = 0 \/ l[Len(l)] # tloc[1].s)
            => lists' = lists]_vars

\* C26's case: main and f were started on one list, f has ended, and
\* SpanName on f's context returned main's name.
C26_Witness ==
    /\ SpanNameReturned
    /\ Len(lists) = 1
    /\ Len(spans) = 2
    /\ spans[1].name = "main"
    /\ spans[2].name = "f"
    /\ ended = {2}
    /\ ctxs[tloc[1].c].span = 2
    /\ tloc[1].ret = Returned("main")

\* C27: writes to the shared writer are mutually exclusive across a handler
\* family: for a Handler and the Handlers derived from it by WithAttrs and
\* WithGroup, which share one io.Writer, no two Handle calls are inside
\* w.Write at the same time.
C27_OneWriteAtATime ==
    \A p, q \in Goroutines :
        (p # q /\ gpc[p] = "Write" /\ gpc[q] = "Write")
            => hs[gloc[p].h].w # hs[gloc[q].h].w

\* What Handler h holds: the bytes of its preformatted and its groups.
Holds(h) ==
    [preformatted |-> Elems(barrs, hs[h].preformatted),
     groups |-> Elems(sarrs, hs[h].groups)]

\* C28: derivation is non-destructive: WithAttrs and WithGroup return a new
\* Handler and leave the receiver's preformatted bytes and groups as they
\* were, and Handlers derived from one parent never overwrite each other's
\* preformatted bytes or groups, in any order of derivations and Handle calls:
\* no step changes what a Handler of the family holds.
C28_NonDestructive ==
    [][/\ Len(hs') >= Len(hs)
       /\ \A h \in 1..Len(hs) : Holds(h)' = Holds(h)]_vars

\* C28's case: the text Handlers 3 and 4 were derived from Handler 2, which
\* holds "a=1", by WithAttrs of a=1 and of b=2, and a record was written.
C28_Witness ==
    /\ Len(hs) = 4
    /\ Holds(2).preformatted = <<97, 61, 49>>
    /\ Holds(3).preformatted = <<97, 61, 49, 32, 97, 61, 49>>
    /\ Holds(4).preformatted = <<97, 61, 49, 32, 98, 61, 50>>
    /\ hs[3].preformatted.arr # hs[4].preformatted.arr
    /\ gpc[1] = "Unlock"
    /\ gloc[1].h = 3

\* C29: WriteTo does not change the encoder: after a WriteTo call, successful
\* or failed, the encoder's buffer and error flag are what they were before
\* the call; so a second WriteTo emits the same frame (on a writer that takes
\* every byte the two frames lie one after the other, and an encoder with an
\* error is refused again with nothing written), and an append made after a
\* WriteTo extends the record that was written.
C29_WriteToKeepsEncoder ==
    [][/\ (wstate' # wstate /\ wstate' # "none")
            => (buf' = buf /\ err' = err /\ hist' = hist)
       /\ (wstate' = "again" /\ ~w.limited /\ werr = "nil")
            => (w'.data = w.data \o w.data /\ wn' = wn /\ werr' = "nil")
       /\ (wstate' = "again" /\ err # "nil")
            => (w'.data = w.data /\ wn' = 0 /\ werr' = err /\ writes' = <<>>)
       /\ (wstate # "none" /\ Len(hist') = Len(hist) + 1)
            => (Len(buf') >= Len(buf) /\ SubSeq(buf', 1, Len(buf)) = buf)]_vars

\* C29's case: a record of two entries was written twice to a writer that
\* took two equal frames.
C29_Witness ==
    /\ wstate = "again"
    /\ Len(hist) = 4
    /\ err = "nil"
    /\ werr = "nil"
    /\ w.data = Frame(buf) \o Frame(buf)

\* The payload length that the header of the source declares.
DeclaredLength ==
    r[5] + 256 * r[6] + 65536 * r[7] + 16777216 * r[8]

\* The source starts with a header of the right magic.
HeaderRead ==
    Len(r) >= 8 /\ SubSeq(r, 1, 4) = <<1, 220, 254, 186>>

\* C30: Decode reads from the source the 8 header bytes plus the declared
\* payload length and never more: of a source that starts with a whole frame
\* it has read exactly the frame, its payload is what the loop works on, and
\* what is left unread starts at the first byte after the frame; it reads 8
\* bytes when the magic is wrong. For a frame of declared length 0 the
\* visitor is not called, and Decode returns nil.
C30_ReadsOneFrame ==
    dpc # "idle" =>
        /\ rpos <= Len(r)
        /\ (Len(r) >= 8 /\ ~HeaderRead) => rpos = 8
        /\ HeaderRead => rpos <= 8 + DeclaredLength
        /\ (HeaderRead /\ 8 + DeclaredLength <= Len(r))
              => /\ rpos = 8 + DeclaredLength
                 /\ dbuf = SubSeq(r, 9, 8 + DeclaredLength)
                 /\ From(r, rpos) = SubSeq(r, 9 + DeclaredLength, Len(r))
                 /\ DeclaredLength = 0
                       => (calls = <<>> /\ (dpc = "done" => dret = RetNil))

\* C30's case: of two frames in one source, Decode took the first, of
\* declared length 0, returned nil without a visitor call and left the
\* source at the second frame.
C30_Witness ==
    /\ r = Frame(<<>>) \o Frame(<<opString, 1, 111, 6>>)
    /\ dpc = "done"
    /\ dret = RetNil
    /\ calls = <<>>
    /\ From(r, rpos) = Frame(<<opString, 1, 111, 6>>)

====
